---------------------------- MODULE Spec2Model ----------------------------
(***************************************************************************)
(* aiosyslogd: the ingest pipeline of src/aiosyslogd/server.py (UDP        *)
(* receiver, queue, batch writer, monthly tables, FTS rebuild, shutdown)   *)
(* and the SQLite driver of src/aiosyslogd/db/sqlite.py.                   *)
(*                                                                         *)
(* A calendar month YYYYMM is a number 1..NumMonths.  A datagram is        *)
(* [id, ym, utf8]: id is its receipt number, ym the month of the           *)
(* datetime.now() stamp taken by datagram_received, utf8 whether the       *)
(* payload decodes.  A record is [id, ym] (ym = ReceivedAt's month).       *)
(* A table is the sequence of its rows in insertion order: the position    *)
(* of a row is its AUTOINCREMENT ID.                                       *)
(*                                                                         *)
(* More specifications share the module: SpecDriver (the SQLite driver),   *)
(* SpecParse (process_datagram on one payload), SpecDecode                 *)
(* (SyslogMatrix.decode_int on one code), SpecYear (the year of an         *)
(* RFC 3164 timestamp), SpecBoundary (get_time_boundary_ids on one table   *)
(* and time window), SpecQuery (LogQuery.run answering the requests of a   *)
(* user who pages through a search), SpecPair (two requests served at      *)
(* once), SpecPaging (paging while the writer commits), SpecApp (the       *)
(* routes of web.py behind login_required) and SpecLegacy (the server of   *)
(* src/syslogd.py).  The web search lives in db/sqlite_utils.py, of which  *)
(* only the caller (web.py) and the tests (tests/test_web.py) are at       *)
(* hand: it is written down from sections 4.8 to 4.10 of the               *)
(* specification.                                                          *)
(***************************************************************************)
EXTENDS Integers, Sequences, FiniteSets, TLC

\* ---- bounds of the model
NumMonths == 2
MaxDatagrams == 3
MaxFaults == 2
MaxDrvBatch == 2
MaxDrvRecs == 4

\* ---- program constant: BATCH_SIZE (environment, default 1000; the tests
\* patch it to 1, 2 and 10)
BATCH_SIZE == 2

Months == 1..NumMonths

None == [id |-> 0, ym |-> 0]

FlushPcs == {"create", "insert", "commit", "fts", "ftscommit"}

\* ------------------------------------------------------------------------
\* The store: one aiosqlite connection.  c is the committed content (what
\* another connection reads), w the content this connection sees (c plus
\* the open transaction), inTxn whether a transaction is open.
\* ------------------------------------------------------------------------
EmptySnap ==
    [tables |-> {}, idx |-> {}, ftsT |-> {},
     rows |-> [m \in Months |-> <<>>],
     fts |-> [m \in Months |-> <<>>]]

EmptyStore == [c |-> EmptySnap, w |-> EmptySnap, inTxn |-> FALSE, open |-> TRUE]

NoStore == [c |-> EmptySnap, w |-> EmptySnap, inTxn |-> FALSE, open |-> FALSE]

\* db.commit()
StoreCommit(s) == [s EXCEPT !.c = s.w, !.inTxn = FALSE]

\* db.rollback()
StoreRollback(s) == [s EXCEPT !.w = s.c, !.inTxn = FALSE]

\* db.close(): an open transaction is discarded
StoreClose(s) == [s EXCEPT !.w = s.c, !.inTxn = FALSE, !.open = FALSE]

\* A DDL statement: sqlite3 opens no transaction for it, so outside a
\* transaction it is committed at once, inside one it is part of it.
StoreDDL(s, snap) ==
    IF s.inTxn THEN [s EXCEPT !.w = snap]
               ELSE [s EXCEPT !.w = snap, !.c = snap]

\* db.executemany(INSERT INTO SystemEvents<ym> ...) of the first k records
\* of batch: sqlite3 opens a transaction before the first INSERT.
StoreInsert(s, ym, batch, k) ==
    [s EXCEPT !.w.rows[ym] = s.w.rows[ym] \o SubSeq(batch, 1, k),
              !.inTxn = TRUE]

\* a rebuild that indexes the newest row only
StoreIndexNewest(s, ym) ==
    [s EXCEPT !.w.fts[ym] = IF s.w.rows[ym] = <<>> THEN <<>>
                             ELSE <<s.w.rows[ym][Len(s.w.rows[ym])]>>,
              !.inTxn = TRUE]

\* INSERT INTO SystemEventsFTS<ym>(SystemEventsFTS<ym>) VALUES('rebuild'):
\* the index is rebuilt from the content table as this connection sees it.
StoreRebuild(s, ym) ==
    [s EXCEPT !.w.fts[ym] = s.w.rows[ym], !.inTxn = TRUE]

\* create_monthly_table's statements that ran, none of them committed by
\* its own commit: n = 0 none (the SELECT or CREATE TABLE failed), 1 CREATE
\* TABLE (CREATE INDEX failed), 2 and CREATE INDEX (CREATE VIRTUAL TABLE
\* failed), 3 all three (the commit failed, or is still to come).
CreateUpTo(s, ym, n) ==
    LET t == IF n >= 1 THEN [s.w EXCEPT !.tables = @ \cup {ym}] ELSE s.w
        i == IF n >= 2 THEN [t EXCEPT !.idx = @ \cup {ym}] ELSE t
        f == IF n >= 3 THEN [i EXCEPT !.ftsT = @ \cup {ym}] ELSE i
    IN  IF n = 0 THEN s ELSE StoreDDL(s, f)

\* ------------------------------------------------------------------------
\* State
\* ------------------------------------------------------------------------
VARIABLES
    DEBUG,          \* server.py DEBUG (environment)
    SQL_WRITE,      \* server.py SQL_WRITE (environment)
    now,            \* the month of datetime.now()
    transport,      \* self.transport: "none", "open", "closed"
    shutting_down,  \* self._shutting_down
    queue,          \* self._message_queue
    db,             \* self.db
    writerPc,       \* self._db_writer_task: where database_writer stands
    batch,          \* database_writer's local batch
    trigger,        \* which call of write_batch_to_db is running
    coordPc,        \* run_server / shutdown: where the coordinator stands
    arrived,        \* number of calls of datagram_received
    discarded,      \* number of datagrams datagram_received dropped
    accepted,       \* ids of the enqueued datagrams that decode to a record
    handed,         \* ids of the records passed to write_batch_to_db
    failedRecs,     \* ids of the records of a flush whose insert or commit failed
    faults,         \* number of store failures so far
    drv,            \* SQLiteDriver.db
    drvNext,        \* number of records handed to SQLiteDriver.write_batch
    drvLast         \* the last SQLiteDriver.write_batch call

VARIABLES
    data,           \* process_datagram: the payload of the datagram
    address,        \* process_datagram: the peer the datagram came from
    received_at,    \* process_datagram: the stamp datagram_received took
    result          \* process_datagram: the params it returned

VARIABLES
    table,          \* the rows of SystemEvents in the selected database file
    ctx,            \* QueryContext: filters and page size of the search
    ids,            \* what get_time_boundary_ids returns in the run
    res,            \* the bundle LogQuery.run returned for the last request
    seen,           \* the pages a user got by paging forward, in order
    nav             \* where the user stands: start, forward, back or end

VARIABLES
    files,          \* the months that have a partition file on disk
    users,          \* AuthManager.users: each name absent, enabled or disabled
    session,        \* session["username"] of the browser, or "none"
    request,        \* the number of requests the browser has made
    response,       \* what the last request was answered with
    snapshot        \* the rows of the table at the first request of a paging

VARIABLES
    tasks,          \* syslogd.py: where each handle_datagram task stands
    fts_buffer,     \* syslogd.py self.fts_buffer
    last_fts_sync,  \* syslogd.py self.last_fts_sync is set
    conn,           \* syslogd.py self.db: pending and committed rows
    sigint          \* syslogd.py: where handle_sigint stands

cfg == <<DEBUG, SQL_WRITE>>
appVars == <<files, users, session, request, response, snapshot>>
legacyVars == <<tasks, fts_buffer, last_fts_sync, conn, sigint>>
parseVars == <<data, address, received_at, result>>
webVars == <<table, ctx, ids, res, seen, nav>>
wr == <<writerPc, batch, trigger, handed>>
drvVars == <<drv, drvNext, drvLast>>
vars == <<DEBUG, SQL_WRITE, now, transport, shutting_down, queue, db, writerPc,
          batch, trigger, coordPc, arrived, discarded, accepted, handed, failedRecs,
          faults, drv, drvNext, drvLast, parseVars, webVars, appVars, legacyVars>>

Ids(b) == {b[i].id : i \in DOMAIN b}

\* SyslogUDPServer.__init__ and create(): connect_to_sqlite when SQL_WRITE
ServerInit ==
    /\ DEBUG \in BOOLEAN
    /\ SQL_WRITE \in BOOLEAN
    /\ now = 1
    /\ transport = "none"
    /\ shutting_down = FALSE
    /\ queue = <<>>
    /\ db = IF SQL_WRITE THEN EmptyStore ELSE NoStore
    /\ writerPc = "none"
    /\ batch = <<>>
    /\ trigger = "none"
    /\ coordPc = "running"
    /\ arrived = 0
    /\ discarded = 0
    /\ accepted = {}
    /\ handed = {}
    /\ failedRecs = {}
    /\ faults = 0
    /\ drv = EmptyStore
    /\ drvNext = 0
    /\ drvLast = [ok |-> FALSE, batch |-> <<>>]

\* a datagram without content from nobody, not yet processed
NoData ==
    [kind |-> "text", text |-> <<>>, pri |-> <<>>, ver |-> <<>>,
     ts |-> [date |-> "", sep |-> "", time |-> "", zone |-> ""], host |-> "-",
     app |-> "-", pid |-> "-"]

\* no call of process_datagram is under study
ParseIdle ==
    /\ data = NoData
    /\ address = "none"
    /\ received_at = "none"
    /\ result = "idle"

\* no browser and no legacy server is under study
AppIdle ==
    /\ files = {}
    /\ users = "none"
    /\ session = "none"
    /\ request = 0
    /\ response = "none"
    /\ snapshot = <<>>

LegacyIdle ==
    /\ tasks = <<>>
    /\ fts_buffer = <<>>
    /\ last_fts_sync = FALSE
    /\ conn = "none"
    /\ sigint = "none"

\* no search is under study
WebIdle ==
    /\ AppIdle
    /\ LegacyIdle
    /\ table = <<>>
    /\ ctx = "none"
    /\ ids = "none"
    /\ res = "none"
    /\ seen = <<>>
    /\ nav = "idle"

Init == ServerInit /\ ParseIdle /\ WebIdle

\* ------------------------------------------------------------------------
\* The receiver
\* ------------------------------------------------------------------------

\* The wall clock passes into the next month.
Tick ==
    /\ now < NumMonths
    /\ now' = now + 1
    /\ UNCHANGED <<appVars, legacyVars, cfg, parseVars, webVars, transport, shutting_down, queue, db, wr, coordPc,
                   arrived, discarded, accepted, failedRecs, faults, drvVars>>

\* connection_made without its test of _db_writer_task
StartsWriterUntested(sql_write, pc) == sql_write

\* connection_made: SQL_WRITE and not self._db_writer_task
StartsWriter(sql_write, pc) == sql_write /\ pc = "none"

\* connection_made: the writer task is created once, and only with a store
ConnectionMade ==
    /\ coordPc = "running"
    /\ transport' = "open"
    /\ writerPc' = IF StartsWriter(SQL_WRITE, writerPc) THEN "start" ELSE writerPc
    /\ UNCHANGED <<appVars, legacyVars, cfg, parseVars, webVars, now, shutting_down, queue, db, batch, trigger, handed,
                   coordPc, arrived, discarded, accepted, failedRecs, faults, drvVars>>

\* datagram_received without its test of the shutdown flag
AcceptsAlways(sd) == TRUE

\* datagram_received's test of the shutdown flag
Accepts(sd) == ~sd

\* a queue that puts the new item in front
EnqueueFront(q, d) == <<d>> \o q

\* a queue of one slot that drops the incoming item when it is full
EnqueueBounded(q, d) == IF Len(q) >= 1 THEN q ELSE Append(q, d)

\* _message_queue.put_nowait on the unbounded asyncio.Queue()
Enqueue(q, d) == Append(q, d)

\* datagram_received(data, addr)
DatagramReceived ==
    /\ transport # "none"
    /\ arrived < MaxDatagrams
    /\ arrived' = arrived + 1
    /\ \E u \in BOOLEAN :
         IF Accepts(shutting_down)
         THEN /\ queue' = Enqueue(queue, [id |-> arrived + 1, ym |-> now, utf8 |-> u])
              /\ accepted' = IF u THEN accepted \cup {arrived + 1} ELSE accepted
              /\ UNCHANGED discarded
         ELSE /\ discarded' = discarded + 1
              /\ UNCHANGED <<queue, accepted>>
    /\ UNCHANGED <<appVars, legacyVars, cfg, parseVars, webVars, now, transport, shutting_down, db, wr, coordPc,
                   failedRecs, faults, drvVars>>

\* ------------------------------------------------------------------------
\* The batch writer: database_writer and write_batch_to_db
\* ------------------------------------------------------------------------

\* process_datagram: None for a payload that is not UTF-8, else a record
\* stamped with the datagram's receipt time
process_datagram(d) == IF d.utf8 THEN [id |-> d.id, ym |-> d.ym] ELSE None

\* a while loop that looks at the shutdown flag alone
LoopStopsOnFlag(sd, q) == ~sd

\* the test of database_writer's while loop
LoopContinues(sd, q) == ~sd \/ q # <<>>

\* write_batch_to_db's choice of the table: batch[0]["ReceivedAt"]
year_month(b) == b[1].ym

\* write_batch_to_db(b) is entered
StartFlush(b, trig) ==
    /\ batch' = b
    /\ writerPc' = "create"
    /\ trigger' = trig
    /\ handed' = handed \cup Ids(b)

\* The writer is at the top of its loop with batch b and queue q: it waits
\* for the next item, or it leaves the loop, flushes what is left and ends.
Resume(b, q) ==
    IF LoopContinues(shutting_down, q)
    THEN /\ batch' = b
         /\ writerPc' = "wait"
         /\ trigger' = "none"
         /\ handed' = handed
    ELSE IF b # <<>>
         THEN StartFlush(b, "final")
         ELSE /\ batch' = b
              /\ writerPc' = "done"
              /\ trigger' = "none"
              /\ handed' = handed

\* write_batch_to_db returned: batch.clear(), then on with the loop, or the
\* end of the task after the final flush
EndFlush ==
    IF trigger = "final"
    THEN /\ batch' = <<>>
         /\ writerPc' = "done"
         /\ trigger' = "none"
         /\ handed' = handed
    ELSE Resume(<<>>, queue)

\* write_batch_to_db raised.  In the try block of the loop (the size
\* flush) "except Exception" takes it and batch.clear() is skipped; in the
\* "except asyncio.TimeoutError" handler and after the loop nothing takes
\* it and the task ends with the exception, its batch never cleared.
RaiseFlush ==
    IF trigger = "size"
    THEN Resume(batch, queue)
    ELSE /\ writerPc' = "crashed"
         /\ trigger' = "none"
         /\ UNCHANGED <<batch, handed>>

\* write_batch_to_db's "except Exception" around insert, commit and FTS
\* sync, reached with the store as s: the rollback is under the DEBUG test
FlushFailed(s) ==
    /\ db' = IF DEBUG /\ ~shutting_down THEN StoreRollback(s) ELSE s
    /\ failedRecs' = failedRecs \cup Ids(batch)
    /\ faults' = faults + 1
    /\ EndFlush

\* the task created by connection_made starts to run
WriterStart ==
    /\ writerPc = "start"
    /\ Resume(<<>>, queue)
    /\ UNCHANGED <<appVars, legacyVars, cfg, parseVars, webVars, now, transport, shutting_down, queue, db, coordPc,
                   arrived, discarded, accepted, failedRecs, faults, drvVars>>

\* wait_for(queue.get()) returns an item
WriterGet ==
    /\ writerPc = "wait"
    /\ queue # <<>>
    /\ queue' = Tail(queue)
    /\ LET params == process_datagram(Head(queue))
           b == IF params # None THEN Append(batch, params) ELSE batch
       IN  IF Len(b) >= BATCH_SIZE
           THEN StartFlush(b, "size")
           ELSE Resume(b, Tail(queue))
    /\ UNCHANGED <<appVars, legacyVars, cfg, parseVars, webVars, now, transport, shutting_down, db, coordPc,
                   arrived, discarded, accepted, failedRecs, faults, drvVars>>

\* wait_for(queue.get()) times out after BATCH_TIMEOUT
WriterTimeout ==
    /\ writerPc = "wait"
    /\ queue = <<>>
    /\ IF batch # <<>>
       THEN StartFlush(batch, "timeout")
       ELSE Resume(batch, queue)
    /\ UNCHANGED <<appVars, legacyVars, cfg, parseVars, webVars, now, transport, shutting_down, queue, db, coordPc,
                   arrived, discarded, accepted, failedRecs, faults, drvVars>>

\* create_monthly_table(year_month)
WriterCreate ==
    /\ writerPc = "create"
    /\ LET ym == year_month(batch) IN
         \/ /\ ym \in db.w.tables
            /\ writerPc' = "insert"
            /\ UNCHANGED <<db, faults, batch, trigger, handed>>
         \/ /\ ym \notin db.w.tables
            /\ db' = StoreCommit(CreateUpTo(db, ym, 3))
            /\ writerPc' = "insert"
            /\ UNCHANGED <<faults, batch, trigger, handed>>
         \/ /\ faults < MaxFaults
            /\ \E n \in 0..3 :
                 /\ n > 0 => ym \notin db.w.tables
                 /\ db' = CreateUpTo(db, ym, n)
            /\ faults' = faults + 1
            /\ RaiseFlush
    /\ UNCHANGED <<appVars, legacyVars, cfg, parseVars, webVars, now, transport, shutting_down, queue, coordPc,
                   arrived, discarded, accepted, failedRecs, drvVars>>

\* db.executemany(sql_command, batch)
WriterInsert ==
    /\ writerPc = "insert"
    /\ LET ym == year_month(batch) IN
         \/ /\ db' = StoreInsert(db, ym, batch, Len(batch))
            /\ writerPc' = "commit"
            /\ UNCHANGED <<faults, failedRecs, batch, trigger, handed>>
         \/ /\ faults < MaxFaults
            /\ \E k \in 0..(Len(batch) - 1) :
                 FlushFailed(StoreInsert(db, ym, batch, k))
    /\ UNCHANGED <<appVars, legacyVars, cfg, parseVars, webVars, now, transport, shutting_down, queue, coordPc,
                   arrived, discarded, accepted, drvVars>>

\* db.commit()
WriterCommit ==
    /\ writerPc = "commit"
    /\ \/ /\ db' = StoreCommit(db)
          /\ writerPc' = "fts"
          /\ UNCHANGED <<faults, failedRecs, batch, trigger, handed>>
       \/ /\ faults < MaxFaults
          /\ FlushFailed(db)
    /\ UNCHANGED <<appVars, legacyVars, cfg, parseVars, webVars, now, transport, shutting_down, queue, coordPc,
                   arrived, discarded, accepted, drvVars>>

\* sync_fts_for_month: the rebuild; its own "except Exception" takes a
\* failure (a missing FTS table is one) and nothing is rolled back
WriterFts ==
    /\ writerPc = "fts"
    /\ LET ym == year_month(batch) IN
         \/ /\ ym \in db.w.ftsT
            /\ db' = StoreRebuild(db, ym)
            /\ writerPc' = "ftscommit"
            /\ UNCHANGED <<faults, batch, trigger, handed>>
         \/ /\ ym \notin db.w.ftsT
            /\ EndFlush
            /\ UNCHANGED <<db, faults>>
         \/ /\ ym \in db.w.ftsT
            /\ faults < MaxFaults
            /\ faults' = faults + 1
            /\ EndFlush
            /\ UNCHANGED db
    /\ UNCHANGED <<appVars, legacyVars, cfg, parseVars, webVars, now, transport, shutting_down, queue, coordPc,
                   arrived, discarded, accepted, failedRecs, drvVars>>

\* sync_fts_for_month: the commit after the rebuild
WriterFtsCommit ==
    /\ writerPc = "ftscommit"
    /\ \/ /\ db' = StoreCommit(db)
          /\ UNCHANGED faults
       \/ /\ faults < MaxFaults
          /\ faults' = faults + 1
          /\ UNCHANGED db
    /\ EndFlush
    /\ UNCHANGED <<appVars, legacyVars, cfg, parseVars, webVars, now, transport, shutting_down, queue, coordPc,
                   arrived, discarded, accepted, failedRecs, drvVars>>

\* ------------------------------------------------------------------------
\* The shutdown coordinator: run_server and shutdown
\* ------------------------------------------------------------------------

\* SIGINT or SIGTERM: stop_event is set, run_server closes the transport
\* and shutdown() runs up to its first await
Signal ==
    /\ coordPc = "running"
    /\ transport = "open"
    /\ shutting_down' = TRUE
    /\ transport' = "closed"
    /\ IF writerPc # "none"
       THEN coordPc' = "sleep" /\ UNCHANGED db
       ELSE coordPc' = "closed" /\ db' = IF db.open THEN StoreClose(db) ELSE db
    /\ UNCHANGED <<appVars, legacyVars, cfg, parseVars, webVars, now, queue, wr, arrived, discarded, accepted, failedRecs,
                   faults, drvVars>>

\* asyncio.sleep(0.1) is over
SleepDone ==
    /\ coordPc = "sleep"
    /\ coordPc' = "await"
    /\ UNCHANGED <<appVars, legacyVars, cfg, parseVars, webVars, now, transport, shutting_down, queue, db, wr, arrived,
                   discarded, accepted, failedRecs, faults, drvVars>>

\* an await that returns while the task is still running
TaskEndedEarly(pc) == pc # "crashed"

\* "await self._db_writer_task" returns: the task has run to its end
TaskEnded(pc) == pc = "done"

\* "await self._db_writer_task" returns and the store is closed, or it
\* raises the exception the task ended with and shutdown() ends there
AwaitWriter ==
    /\ coordPc = "await"
    /\ \/ /\ TaskEnded(writerPc)
          /\ db' = StoreClose(db)
          /\ coordPc' = "closed"
       \/ /\ writerPc = "crashed"
          /\ coordPc' = "failed"
          /\ UNCHANGED db
    /\ UNCHANGED <<appVars, legacyVars, cfg, parseVars, webVars, now, transport, shutting_down, queue, wr, arrived,
                   discarded, accepted, failedRecs, faults, drvVars>>

WriterStep ==
    \/ WriterStart
    \/ WriterGet
    \/ WriterTimeout
    \/ WriterCreate
    \/ WriterInsert
    \/ WriterCommit
    \/ WriterFts
    \/ WriterFtsCommit

CoordStep == Signal \/ SleepDone \/ AwaitWriter

Next ==
    \/ Tick
    \/ ConnectionMade
    \/ DatagramReceived
    \/ WriterStep
    \/ CoordStep

Spec == Init /\ [][Next]_vars

\* ------------------------------------------------------------------------
\* SQLiteDriver (db/sqlite.py): write_batch, called and awaited by its
\* user, one call at a time
\* ------------------------------------------------------------------------

\* SQLiteDriver.write_batch(b) for a non-empty b
DriverWrite(b) ==
    LET ym == year_month(b)
        made == IF ym \in drv.w.tables THEN drv
                ELSE StoreCommit(CreateUpTo(drv, ym, 3))
    IN  \/ /\ drv' = StoreCommit(StoreInsert(made, ym, b, Len(b)))
           /\ drvLast' = [ok |-> TRUE, batch |-> b]
           /\ UNCHANGED faults
        \/ /\ faults < MaxFaults
           /\ faults' = faults + 1
           /\ drvLast' = [ok |-> FALSE, batch |-> b]
           /\ \/ \E n \in 0..3 :
                   /\ n > 0 => ym \notin drv.w.tables
                   /\ drv' = CreateUpTo(drv, ym, n)
              \/ \E k \in 0..(Len(b) - 1) :
                   drv' = StoreRollback(StoreInsert(made, ym, b, k))
              \/ drv' = StoreRollback(StoreInsert(made, ym, b, Len(b)))

\* a call of SQLiteDriver.write_batch: n records, the first j of month m1
\* and the others of month m2
DriverWriteBatch ==
    /\ \E n \in 0..MaxDrvBatch, j \in 0..MaxDrvBatch, m1 \in Months, m2 \in Months :
         /\ drvNext + n <= MaxDrvRecs
         /\ j <= n
         /\ m1 <= m2
         /\ drvNext' = drvNext + n
         /\ LET b == [i \in 1..n |->
                        [id |-> drvNext + i, ym |-> IF i <= j THEN m1 ELSE m2]]
            IN  IF b = <<>>
                THEN /\ drvLast' = [ok |-> TRUE, batch |-> b]
                     /\ UNCHANGED <<drv, faults>>
                ELSE DriverWrite(b)
    /\ UNCHANGED <<appVars, legacyVars, cfg, parseVars, webVars, now, transport, shutting_down, queue, db, wr, coordPc,
                   arrived, discarded, accepted, failedRecs>>

DriverNext == DriverWriteBatch

SpecDriver == Init /\ [][DriverNext]_vars

\* ------------------------------------------------------------------------
\* process_datagram (server.py) and the priority matrix (priority.py)
\* ------------------------------------------------------------------------

\* the longest payload text that is looked at character by character
MaxPayload == 4

\* SyslogMatrix.FACILITIES and SyslogMatrix.LEVELS: how many there are
FACILITIES == 24
LEVELS == 8

Chars == {"<", ">", "0", "1", "4", "x", " "}
DigitChar == <<"0", "1", "2", "3", "4", "5", "6", "7", "8", "9">>
Digits == {DigitChar[i] : i \in DOMAIN DigitChar}
Peers == {"10.0.0.1", "10.0.0.2"}

\* A timestamp as it stands in a message: date, separator, time of day and
\* zone designator
Ts(d, sp, t, z) == [date |-> d, sep |-> sp, time |-> t, zone |-> z]
NoTs == Ts("", "", "", "")

\* A datetime value
DateTime(d, t, z) == [date |-> d, time |-> t, zone |-> z]
NoTime == DateTime("", "", "")

\* the TIMESTAMP field of an RFC 5424 text: with Z, in lower case, with an
\* offset, without a zone, the NILVALUE, and a word that is no timestamp
Stamps5424 ==
    {Ts("2003-10-11", "T", "22:14:15", "Z"), Ts("2003-10-11", "t", "22:14:15", "z"),
     Ts("2003-10-11", "T", "22:14:15", "+07:00"), Ts("2003-10-11", "T", "22:14:15", ""),
     Ts("-", "", "", ""), Ts("yesterday", "", "", "")}

\* month, day and time of an RFC 3164 text: one strptime reads, one it does not
Stamps3164 == {Ts("Oct 11", " ", "22:14:15", ""), Ts("1ab 11", " ", "22:14:15", "")}

\* datetime.now() when datagram_received stamps the datagram, and when
\* convert_rfc3164_to_rfc5424 runs
ReceiptTimes == {DateTime("2025-05-31", "23:59:59", ""), DateTime("2025-06-01", "12:00:00", "")}
ConvertTimes == {DateTime("2025-06-01", "12:00:01", ""), DateTime("2025-06-01", "12:00:02", "")}

\* A payload is one of: bytes that are not UTF-8 ("binary"); a text that
\* RFC5424_PATTERN matches, given by its groups ("rfc5424", text being the
\* msg group); a text that the RFC 3164 pattern of
\* convert_rfc3164_to_rfc5424 matches, given by its groups ("rfc3164", app
\* and pid being the two parts of the tag); any other text, given character
\* by character ("text": too short for either pattern).
Payload(k, t, pr, v, ts, h, a, p) ==
    [kind |-> k, text |-> t, pri |-> pr, ver |-> v, ts |-> ts, host |-> h,
     app |-> a, pid |-> p]

Payloads ==
    {Payload("binary", <<>>, <<>>, <<>>, NoTs, "-", "-", "-")}
    \cup {Payload("text", t, <<>>, <<>>, NoTs, "-", "-", "-") :
              t \in UNION {[1..n -> Chars] : n \in 0..MaxPayload}}
    \cup {Payload("rfc5424", <<"m">>, pr, v, ts, h, a, p) :
              pr \in {<<"1", "4">>, <<"4", "4", "4">>}, v \in {<<"1">>, <<"4">>},
              ts \in Stamps5424, h \in {"-", "h"}, a \in {"-", "a"}, p \in {"-", "7"}}
    \cup {Payload("rfc3164", <<"m">>, pr, <<>>, ts, "h", a, p) :
              pr \in {<<"1", "4">>, <<"4", "4", "4">>}, ts \in Stamps3164,
              a \in {"-", "a"}, p \in {"-", "7"}}
    \cup {Payload("rfc3164", <<"m">>, <<"1", "4">>, <<>>, ts, "h", "", "7") :
              ts \in Stamps3164}

DigitVal(c) == (CHOOSE i \in DOMAIN DigitChar : DigitChar[i] = c) - 1

RECURSIVE IntOf(_)
IntOf(code) ==
    IF code = <<>> THEN 0
    ELSE 10 * IntOf(SubSeq(code, 1, Len(code) - 1)) + DigitVal(code[Len(code)])

\* str(i) of an integer
RECURSIVE str(_)
str(i) ==
    IF i < 0 THEN <<"-">> \o str(0 - i)
    ELSE IF i < 10 THEN <<DigitChar[i + 1]>>
    ELSE str(i \div 10) \o <<DigitChar[(i % 10) + 1]>>

\* A code handed to SyslogMatrix is an integer or a string
IntCode(i) == [isint |-> TRUE, val |-> i]
StrCode(t) == [isint |-> FALSE, val |-> t]

\* SyslogMatrix.__init__: the keys of the matrix are str(i), one for each
\* pair of a facility and a level
InMatrix(code) ==
    /\ code # <<>>
    /\ \A i \in DOMAIN code : code[i] \in Digits
    /\ Len(code) > 1 => code[1] # "0"
    /\ IntOf(code) < FACILITIES * LEVELS

\* a matrix looked up by the number a string stands for ("014" as 14)
MatrixGetByValue(key) ==
    IF key # <<>> /\ (\A i \in DOMAIN key : key[i] \in Digits)
          /\ IntOf(key) < FACILITIES * LEVELS
    THEN <<IntOf(key) \div LEVELS, IntOf(key) % LEVELS>>
    ELSE <<0, 0>>

\* self.matrix.get(code, ("kernel", "emergency")), as the indices of the
\* facility and the level
MatrixGet(key) ==
    IF InMatrix(key) THEN <<IntOf(key) \div LEVELS, IntOf(key) % LEVELS>>
    ELSE <<0, 0>>

\* SyslogMatrix.decode: an integer is looked up as str(code)
decode(code) == MatrixGet(IF code.isint THEN str(code.val) ELSE code.val)

\* SyslogMatrix.decode_int: (facility, level), (0, 0) for an unknown code
decode_int(code) == decode(code)

\* str.find, counted from 1: 0 when c does not occur in t
Find(t, c) ==
    IF \E i \in DOMAIN t : t[i] = c
    THEN CHOOSE i \in DOMAIN t : t[i] = c /\ \A j \in 1..(i - 1) : t[j] # c
    ELSE 0

\* the first three letters of an RFC 3164 text after its PRI
Month(ts) == IF ts.date = "Oct 11" THEN <<"O", "c", "t">> ELSE <<"1", "a", "b">>

\* The characters a payload starts with: a text whole, a text that matches
\* a pattern up to the white space after its second field
Text(d) ==
    CASE d.kind = "rfc5424" -> <<"<">> \o d.pri \o <<">">> \o d.ver \o <<" ">>
      [] d.kind = "rfc3164" -> <<"<">> \o d.pri \o <<">">> \o Month(d.ts) \o <<" ">>
      [] OTHER -> d.text

\* str.isspace of one character
IsSpace(c) == c = " "

\* a conversion whose result is again an RFC 3164 text, with a new time
convert_rfc3164_restamped(d, t_now) ==
    IF d.kind # "rfc3164" THEN d
    ELSE [d EXCEPT !.ts = Ts(t_now.date, " ", t_now.time, "")]

\* convert_rfc3164_to_rfc5424: a text the pattern does not match is returned
\* as it is; a text it matches is rewritten as
\* <pri>1 timestamp hostname app_name procid - - msg, the timestamp being
\* that of the text if strptime reads it and the current time if not.  A
\* tag that is only a pid in brackets leaves the app_name empty, and
\* RFC5424_PATTERN does not match the rewritten text
convert_rfc3164_to_rfc5424(d, t_now) ==
    IF d.kind # "rfc3164" THEN d
    ELSE LET timestamp == IF d.ts.date = "Oct 11"
                          THEN Ts("2003-10-11", "T", d.ts.time, "Z")
                          ELSE Ts(t_now.date, "T", t_now.time, "Z")
         IN  IF d.app = ""
             THEN Payload("text", <<"<">> \o d.pri \o <<">", "1", " ", "t", " ", "h", " ",
                                   " ", "7", " ", "-", " ", "-", " ">> \o d.text,
                          <<>>, <<>>, NoTs, "-", "-", "-")
             ELSE Payload("rfc5424", d.text, d.pri, <<"1">>, timestamp, d.host, d.app,
                          d.pid)

\* normalize_to_rfc5424: a text with "1" and a white space after its first
\* ">" is returned as it is, any other is handed to the conversion
normalize_to_rfc5424(d, t_now) ==
    LET message == Text(d)
        pri_end == Find(message, ">")
    IN  IF /\ pri_end > 1
           /\ Len(message) >= pri_end + 2
           /\ message[pri_end + 1] = "1"
           /\ IsSpace(message[pri_end + 2])
        THEN d
        ELSE convert_rfc3164_to_rfc5424(d, t_now)

\* RFC5424_PATTERN.match
Rfc5424Match(d) == d.kind = "rfc5424"

\* str.upper and str.replace("Z", "+00:00") on a timestamp
upper(ts) ==
    Ts(IF ts.date = "yesterday" THEN "YESTERDAY" ELSE ts.date,
       IF ts.sep = "t" THEN "T" ELSE ts.sep, ts.time,
       IF ts.zone = "z" THEN "Z" ELSE ts.zone)
replace_Z(ts) == [ts EXCEPT !.zone = IF ts.zone = "Z" THEN "+00:00" ELSE ts.zone]

\* the dates and times of day of the model that are written as ISO-8601
IsoDates == {"2003-10-11"} \cup {t.date : t \in ConvertTimes}
IsoTimes == {"22:14:15"} \cup {t.time : t \in ConvertTimes}

\* datetime.fromisoformat: whether the text is read, and the value
fromisoformat(ts) ==
    IF /\ ts.date \in IsoDates
       /\ ts.sep = "T"
       /\ ts.time \in IsoTimes
       /\ ts.zone \in {"", "+00:00", "+07:00"}
    THEN [ok |-> TRUE, value |-> DateTime(ts.date, ts.time, ts.zone)]
    ELSE [ok |-> FALSE, value |-> NoTime]

\* params whose ReceivedAt is the time the device reported
ParamsStampedByDevice(r, fp, iu, rat, drt, h, tag, pid, msg) ==
    [ret |-> r, Facility |-> fp[1], Priority |-> fp[2], InfoUnitID |-> iu,
     ReceivedAt |-> drt, DeviceReportedTime |-> drt, FromHost |-> h,
     SysLogTag |-> tag, ProcessID |-> pid, Message |-> msg]

\* the dict process_datagram returns
Params(r, fp, iu, rat, drt, h, tag, pid, msg) ==
    [ret |-> r, Facility |-> fp[1], Priority |-> fp[2], InfoUnitID |-> iu,
     ReceivedAt |-> rat, DeviceReportedTime |-> drt, FromHost |-> h,
     SysLogTag |-> tag, ProcessID |-> pid, Message |-> msg]

\* process_datagram has not returned / has returned None
Pending == Params("pending", <<0, 0>>, 0, NoTime, NoTime, "-", "-", "-", <<>>)
NoParams == Params("None", <<0, 0>>, 0, NoTime, NoTime, "-", "-", "-", <<>>)

\* a timestamp that is read only with its Z replaced is not read
TimeOfStrict(ts, at) ==
    IF fromisoformat(ts).ok THEN fromisoformat(ts).value ELSE at

\* process_datagram: DeviceReportedTime of a text RFC5424_PATTERN matches
TimeOf(ts, at) ==
    LET ts_str == replace_Z(upper(ts)) IN
    IF fromisoformat(ts_str).ok THEN fromisoformat(ts_str).value ELSE at

\* process_datagram(data, address, received_at)
ProcessDatagram(d, addr, at, t_now) ==
    IF d.kind = "binary" THEN NoParams
    ELSE LET processed_data == normalize_to_rfc5424(d, t_now) IN
         IF ~Rfc5424Match(processed_data)
         THEN LET pri_end == Find(processed_data.text, ">")
                  code == IF pri_end # 0
                          THEN SubSeq(processed_data.text, 2, pri_end - 1)
                          ELSE <<"1", "4">>
              IN  Params("record", decode_int(StrCode(code)), 1, at, at, addr,
                         "UNKNOWN", "0", processed_data.text)
         ELSE LET parts == processed_data IN
              Params("record", decode_int(StrCode(parts.pri)), 1, at,
                     TimeOf(parts.ts, at),
                     IF parts.host # "-" THEN parts.host ELSE addr,
                     IF parts.app # "-" THEN parts.app ELSE "UNKNOWN",
                     IF parts.pid # "-" THEN parts.pid ELSE "0",
                     parts.text)

\* a datagram with any payload from any peer is about to be processed
InitParse ==
    /\ ServerInit
    /\ WebIdle
    /\ data \in Payloads
    /\ address \in Peers
    /\ received_at \in ReceiptTimes
    /\ result = Pending

\* database_writer calls process_datagram
ProcessDatagramCall ==
    /\ result.ret = "pending"
    /\ \E t_now \in ConvertTimes :
           result' = ProcessDatagram(data, address, received_at, t_now)
    /\ UNCHANGED <<appVars, legacyVars, cfg, now, transport, shutting_down, queue, db, wr, coordPc,
                   arrived, discarded, accepted, failedRecs, faults, drvVars,
                   webVars, data, address, received_at>>

ParseNext == ProcessDatagramCall

SpecParse == InitParse /\ [][ParseNext]_vars

-----------------------------------------------------------------------------
\* SyslogMatrix on its own: decode_int is applied to one code.

MaxCode == 200
CodeChars == {"0", "1", "2", "9", "-", " "}

Codes ==
    {IntCode(i) : i \in (0 - 2)..MaxCode} \cup {IntCode(999)}
    \cup {StrCode(str(i)) : i \in 0..MaxCode}
    \cup {StrCode(t) : t \in UNION {[1..n -> CodeChars] : n \in 0..3}}

NotDecoded == [ret |-> "pending", value |-> <<0, 0>>]

InitDecode ==
    /\ ServerInit
    /\ WebIdle
    /\ data \in Codes
    /\ address = "none"
    /\ received_at = NoTime
    /\ result = NotDecoded

\* a call of decode_int
DecodeIntCall ==
    /\ result.ret = "pending"
    /\ result' = [ret |-> "returned", value |-> decode_int(data)]
    /\ UNCHANGED <<appVars, legacyVars, cfg, now, transport, shutting_down, queue, db, wr, coordPc,
                   arrived, discarded, accepted, failedRecs, faults, drvVars,
                   webVars, data, address, received_at>>

DecodeNext == DecodeIntCall

SpecDecode == InitDecode /\ [][DecodeNext]_vars

-----------------------------------------------------------------------------
\* The year of an RFC 3164 timestamp.  SpecParse takes one date for every
\* text; here the month, day and time of the text are a position 1..MaxSlot
\* in the year, and a datetime is [year, pos].  The position LeapDay is
\* February 29: strptime reads a date without a year in the year 1900,
\* which has no such day.

MaxSlot == 8
LeapDay == 2
Years == 2024..2026

Date(y, p) == [year |-> y, pos |-> p]

\* the order of datetimes
Instant(d) == d.year * MaxSlot + d.pos

\* datetime.strptime(..., "%b %d %H:%M:%S"): ValueError for February 29
strptime(p) == [ok |-> p # LeapDay, value |-> Date(1900, p)]

\* a test that also takes a time equal to now as the future
IsFutureOrNow(d, t_now) == Instant(d) >= Instant(t_now)

\* convert_rfc3164_to_rfc5424: dt_naive > now
IsFuture(d, t_now) == Instant(d) > Instant(t_now)

\* convert_rfc3164_to_rfc5424: the timestamp of the rewritten text
ReconstructedTime(p, t_now) ==
    IF ~strptime(p).ok THEN t_now
    ELSE LET dt_naive == [strptime(p).value EXCEPT !.year = t_now.year] IN
         IF IsFuture(dt_naive, t_now)
         THEN [dt_naive EXCEPT !.year = t_now.year - 1]
         ELSE dt_naive

NotConverted == [ret |-> "pending", at |-> Date(0, 0), value |-> Date(0, 0)]

InitYear ==
    /\ ServerInit
    /\ WebIdle
    /\ data \in 1..MaxSlot
    /\ address = "none"
    /\ received_at = NoTime
    /\ result = NotConverted

\* a call of convert_rfc3164_to_rfc5424 at some time of some year
ConvertCall ==
    /\ result.ret = "pending"
    /\ \E y \in Years, p \in 1..MaxSlot :
         result' = [ret |-> "returned", at |-> Date(y, p),
                    value |-> ReconstructedTime(data, Date(y, p))]
    /\ UNCHANGED <<appVars, legacyVars, cfg, now, transport, shutting_down, queue, db, wr, coordPc,
                   arrived, discarded, accepted, failedRecs, faults, drvVars,
                   webVars, data, address, received_at>>

YearNext == ConvertCall

SpecYear == InitYear /\ [][YearNext]_vars

\* ------------------------------------------------------------------------
\* The web search (db/sqlite_utils.py): get_time_boundary_ids
\* Times are minutes; the ID of a row is its place in the table, so IDs are
\* dense, and a table is in the order of ReceivedAt, as the writer fills it.
\* ------------------------------------------------------------------------

\* the most rows of a table whose rows differ from each other
MaxRows == 3

\* an absent time bound, ID or cursor
Nil == -1

\* the chunk schedule in minutes, and the 24 hours of the forward search
CHUNKS == <<5, 15, 30, 60>>
MAX_SEARCH == 1440

\* datetime.now() when the search runs: later than every row
QueryNow == 3000

Min(S) == CHOOSE x \in S : \A y \in S : x <= y
Max(S) == CHOOSE x \in S : \A y \in S : x >= y

\* a chunk size that grows by five minutes with every probe
ChunkLinear(i) == 5 * i

\* the chunk size of probe number i (from 1), clamped to the last one
Chunk(i) == CHUNKS[IF i < Len(CHUNKS) THEN i ELSE Len(CHUNKS)]

\* the IDs of the rows with from <= ReceivedAt < to
IdsIn(rows, from, to) == {i \in DOMAIN rows : from <= rows[i].t /\ rows[i].t < to}

\* find id_lo: probe [cursor, cursor + chunk) until a probe is not empty or
\* the cursor has reached the end
RECURSIVE ProbeStart(_, _, _, _)
ProbeStart(rows, cursor, final, i) ==
    IF cursor >= final THEN Nil
    ELSE LET hit == IdsIn(rows, cursor, cursor + Chunk(i))
         IN  IF hit # {} THEN Min(hit)
             ELSE ProbeStart(rows, cursor + Chunk(i), final, i + 1)

\* find the first row strictly after t_max, probing forward from t_max, at
\* most 24 hours
RECURSIVE ProbeSuccessor(_, _, _, _, _)
ProbeSuccessor(rows, t_max, cursor, searched, i) ==
    IF searched >= MAX_SEARCH THEN Nil
    ELSE LET hit == {k \in IdsIn(rows, cursor, cursor + Chunk(i)) : rows[k].t > t_max}
         IN  IF hit # {} THEN Min(hit)
             ELSE ProbeSuccessor(rows, t_max, cursor + Chunk(i),
                                 searched + Chunk(i), i + 1)

\* the probes [from, to) the search for id_lo makes, in order
RECURSIVE StartProbes(_, _, _, _)
StartProbes(rows, cursor, final, i) ==
    IF cursor >= final THEN <<>>
    ELSE <<[from |-> cursor, to |-> cursor + Chunk(i)]>>
         \o (IF IdsIn(rows, cursor, cursor + Chunk(i)) # {} THEN <<>>
             ELSE StartProbes(rows, cursor + Chunk(i), final, i + 1))

\* the probes [from, to) the search for the successor of t_max makes
RECURSIVE SuccessorProbes(_, _, _, _, _)
SuccessorProbes(rows, t_max, cursor, searched, i) ==
    IF searched >= MAX_SEARCH THEN <<>>
    ELSE <<[from |-> cursor, to |-> cursor + Chunk(i)]>>
         \o (IF {k \in IdsIn(rows, cursor, cursor + Chunk(i)) : rows[k].t > t_max} # {}
             THEN <<>>
             ELSE SuccessorProbes(rows, t_max, cursor + Chunk(i),
                                  searched + Chunk(i), i + 1))

\* the fallback: SELECT MAX(ID) WHERE ReceivedAt <= t_max [AND ReceivedAt >= t_min]
MaxIdUpTo(rows, t_min, t_max) ==
    LET hit == {i \in DOMAIN rows : rows[i].t <= t_max /\ (t_min # Nil => rows[i].t >= t_min)}
    IN  IF hit # {} THEN Max(hit) ELSE Nil

\* get_time_boundary_ids(conn, min_time_filter, max_time_filter)
get_time_boundary_ids(rows, t_min, t_max) ==
    LET found == IF t_min = Nil THEN Nil
                 ELSE ProbeStart(rows, t_min, IF t_max # Nil THEN t_max ELSE QueryNow, 1)
        next == IF t_max = Nil THEN Nil ELSE ProbeSuccessor(rows, t_max, t_max, 0, 1)
        end_id == IF t_max = Nil THEN Nil
                  ELSE IF next # Nil THEN next - 1
                  ELSE MaxIdUpTo(rows, t_min, t_max)
        start_id == IF t_max # Nil /\ t_min = Nil THEN 1 ELSE found
    IN  [start_id |-> start_id, end_id |-> end_id, called |-> TRUE]

NoIds == [start_id |-> Nil, end_id |-> Nil, called |-> FALSE]

\* the instants of the rows and of the time filters under study
RowTimes == {0, 10, 20, 25, 2000}
FilterTimes == {Nil, 10, 20}

Row(t, h, m) == [t |-> t, host |-> h, match |-> m]

\* the tables of up to n rows in the order of their ReceivedAt
TimedTables(n) ==
    {tb \in UNION {[1..k -> {Row(t, "h1", TRUE) : t \in RowTimes}] : k \in 0..n} :
        \A i, j \in DOMAIN tb : i < j => tb[i].t <= tb[j].t}

Context(q, h, lo, hi, p) ==
    [search |-> q, from_host |-> h, min_time |-> lo, max_time |-> hi, page_size |-> p]

\* any table and any time window, before the boundaries are looked for
InitBoundary ==
    /\ ServerInit
    /\ AppIdle
    /\ LegacyIdle
    /\ ParseIdle
    /\ table \in TimedTables(MaxRows)
    /\ \E lo \in FilterTimes, hi \in FilterTimes :
         /\ (lo # Nil /\ hi # Nil) => lo <= hi
         /\ ctx = Context(FALSE, "", lo, hi, 1)
    /\ ids = NoIds
    /\ res = "none"
    /\ seen = <<>>
    /\ nav = "idle"

\* LogQuery.run calls get_time_boundary_ids when a time filter is given
GetTimeBoundaryIds ==
    /\ ~ids.called
    /\ ctx.min_time # Nil \/ ctx.max_time # Nil
    /\ ids' = get_time_boundary_ids(table, ctx.min_time, ctx.max_time)
    /\ UNCHANGED <<appVars, legacyVars, cfg, now, transport, shutting_down, queue, db, wr, coordPc,
                   arrived, discarded, accepted, failedRecs, faults, drvVars,
                   parseVars, table, ctx, res, seen, nav>>

BoundaryNext == GetTimeBoundaryIds

SpecBoundary == InitBoundary /\ [][BoundaryNext]_vars

\* ------------------------------------------------------------------------
\* The web search (db/sqlite_utils.py): build_log_query and LogQuery
\* ------------------------------------------------------------------------

\* the largest page size under study
MaxPage == 2

\* the slack of the fast path of the first page
FAST_PATH_SLACK == 50

\* minutes between the receipt of two rows of the tables under study
RowGap == 10

Hosts == {"h1", "h2"}
Directions == {"next", "prev"}

\* what can fail in a run: nothing, the connection, a boundary probe, the
\* count query or the page query
Failures == {"none", "connect", "boundary", "count", "page"}

Reverse(q) == [i \in DOMAIN q |-> q[Len(q) + 1 - i]]

\* ORDER BY ID ASC and ORDER BY ID DESC of a set of IDs
Ascending(S) ==
    IF S = {} THEN <<>>
    ELSE SelectSeq([i \in 1..Max(S) |-> i], LAMBDA i : i \in S)

Descending(S) == Reverse(Ascending(S))

Take(q, n) == SubSeq(q, 1, IF Len(q) < n THEN Len(q) ELSE n)

\* build_log_query: the WHERE conditions the count query and the page query
\* share: ID >= start_id, ID <= end_id, FromHost = ?, and for a search the
\* FTS subquery, which repeats the two ID conditions
Where(rows, i, c, start_id, end_id) ==
    /\ start_id # Nil => i >= start_id
    /\ end_id # Nil => i <= end_id
    /\ c.from_host # "" => rows[i].host = c.from_host
    /\ c.search => /\ rows[i].match
                   /\ start_id # Nil => i >= start_id
                   /\ end_id # Nil => i <= end_id

\* a count query that leaves out the FromHost condition
CountQueryAnyHost(rows, c, start_id, end_id) ==
    Cardinality({i \in DOMAIN rows : Where(rows, i, [c EXCEPT !.from_host = ""],
                                            start_id, end_id)})

\* build_log_query: SELECT COUNT(*) FROM SystemEvents <where>
CountQuery(rows, c, start_id, end_id) ==
    Cardinality({i \in DOMAIN rows : Where(rows, i, c, start_id, end_id)})

\* a page query whose cursor condition lets the cursor row in
PageQueryInclusive(rows, c, start_id, end_id, last_id, direction) ==
    LET hit == {i \in DOMAIN rows :
                   /\ Where(rows, i, c, start_id, end_id)
                   /\ last_id # Nil =>
                         IF direction = "prev" THEN i >= last_id ELSE i <= last_id}
    IN  Take(IF direction = "prev" THEN Ascending(hit) ELSE Descending(hit),
             c.page_size + 1)

\* build_log_query: the page query: <where>, the cursor condition, the
\* order of the direction and LIMIT page_size + 1
PageQuery(rows, c, start_id, end_id, last_id, direction) ==
    LET hit == {i \in DOMAIN rows :
                   /\ Where(rows, i, c, start_id, end_id)
                   /\ last_id # Nil =>
                         IF direction = "prev" THEN i > last_id ELSE i < last_id}
    IN  Take(IF direction = "prev" THEN Ascending(hit) ELSE Descending(hit),
             c.page_size + 1)

\* a choice of the approximate count that does not look at the host filter
use_approximate_countAnyHost(c) ==
    ~c.search /\ (c.min_time # Nil \/ c.max_time # Nil)

\* LogQuery.__init__: use_approximate_count
use_approximate_count(c) ==
    ~c.search /\ c.from_host = "" /\ (c.min_time # Nil \/ c.max_time # Nil)

\* LogQuery._get_total_log_count
get_total_log_count(rows, c, b) ==
    IF use_approximate_count(c) /\ b.end_id # Nil
    THEN b.end_id - (IF b.start_id # Nil THEN b.start_id ELSE 1) + 1
    ELSE CountQuery(rows, c, b.start_id, b.end_id)

\* a lower bound that is tightened on every page of the approximate path
effective_start_idAnyPage(c, b, last_id) ==
    IF use_approximate_count(c) /\ b.end_id # Nil
    THEN Max({IF b.start_id # Nil THEN b.start_id ELSE 1,
              b.end_id - c.page_size - FAST_PATH_SLACK})
    ELSE b.start_id

\* LogQuery._fetch_log_page: the first page of the approximate path looks
\* at the latest slice only
effective_start_id(c, b, last_id) ==
    IF use_approximate_count(c) /\ last_id = Nil /\ b.end_id # Nil
    THEN Max({IF b.start_id # Nil THEN b.start_id ELSE 1,
              b.end_id - c.page_size - FAST_PATH_SLACK})
    ELSE b.start_id

fetch_log_page(rows, c, b, last_id, direction) ==
    PageQuery(rows, c, effective_start_id(c, b, last_id), b.end_id, last_id, direction)

\* has_more that is also true for a full page without an extra row
HasMoreFullPage(n, page_size) == n >= page_size

\* LogQuery._prepare_pagination: has_more
HasMore(n, page_size) == n > page_size

\* LogQuery._prepare_pagination: the rows fetched for "prev" are reversed,
\* then the list is cut to page_size
ReverseThenTrim(fetched, direction, page_size) ==
    Take(IF direction = "prev" THEN Reverse(fetched) ELSE fetched, page_size)

Bundle(err, logs, total, hn, hp, nl, pl, fetched, last_id, direction) ==
    [error |-> err, logs |-> logs, total_logs |-> total,
     has_next_page |-> hn, has_prev_page |-> hp,
     next_last_id |-> nl, prev_last_id |-> pl,
     fetched |-> fetched, last_id |-> last_id, direction |-> direction]

\* an error bundle that keeps the count an earlier step had got
ErrorBundleKeepsCount(msg, total, last_id, direction) ==
    Bundle(msg, <<>>, total, FALSE, FALSE, Nil, Nil, <<>>, last_id, direction)

\* LogQuery.run: the bundle of a failed run: the error, no logs, total 0
ErrorBundle(msg, total, last_id, direction) ==
    Bundle(msg, <<>>, 0, FALSE, FALSE, Nil, Nil, <<>>, last_id, direction)

\* LogQuery._prepare_pagination and the bundle of a run without failure
prepare_pagination(fetched, total, c, last_id, direction) ==
    LET has_more == HasMore(Len(fetched), c.page_size)
        logs == ReverseThenTrim(fetched, direction, c.page_size)
    IN  Bundle("", logs, total,
               IF direction = "next" THEN has_more ELSE last_id # Nil,
               IF direction = "next" THEN last_id # Nil ELSE has_more,
               IF logs # <<>> THEN logs[Len(logs)] ELSE Nil,
               IF logs # <<>> THEN logs[1] ELSE Nil,
               fetched, last_id, direction)

\* the boundaries a run works with: those of get_time_boundary_ids when a
\* time filter is given
Boundaries(rows, c) ==
    IF c.min_time # Nil \/ c.max_time # Nil
    THEN get_time_boundary_ids(rows, c.min_time, c.max_time)
    ELSE NoIds

\* LogQuery.run for the request (last_id, direction), with the boundaries b
\* its call of get_time_boundary_ids returns and the step that fails, if one
\* does
Run(rows, c, b, last_id, direction, fail) ==
    IF fail = "connect" THEN ErrorBundle(fail, 0, last_id, direction)
    ELSE IF fail = "boundary" /\ b.called THEN ErrorBundle(fail, 0, last_id, direction)
    ELSE IF fail = "count" /\ ~(use_approximate_count(c) /\ b.end_id # Nil)
         THEN ErrorBundle(fail, 0, last_id, direction)
    ELSE IF fail = "page"
         THEN ErrorBundle(fail, get_total_log_count(rows, c, b), last_id, direction)
    ELSE prepare_pagination(fetch_log_page(rows, c, b, last_id, direction),
                            get_total_log_count(rows, c, b), c, last_id, direction)

\* the tables of up to n rows, received RowGap minutes apart
Tables(n) ==
    {[i \in DOMAIN hm |-> Row(RowGap * i, hm[i][1], hm[i][2])] :
        hm \in UNION {[1..k -> Hosts \X BOOLEAN] : k \in 0..n}}

\* a table long enough for the fast path of the first page to cut the scan:
\* more rows than a page and the slack hold
LongTables ==
    {[i \in 1..(FAST_PATH_SLACK + MaxPage + 2) |-> Row(RowGap * i, "h1", TRUE)]}

\* the time windows of the searches under study: (t_min, t_max)
Windows ==
    {<<Nil, Nil>>, <<Nil, 20>>, <<20, Nil>>, <<10, 20>>, <<12, 15>>, <<Nil, 600>>,
     <<20, 600>>}

NoBundle == Bundle("", <<>>, 0, FALSE, FALSE, Nil, Nil, <<>>, Nil, "none")

\* any table and any search, before the first request; the long table is
\* searched by time only
InitQuery ==
    /\ ServerInit
    /\ ~DEBUG
    /\ SQL_WRITE
    /\ AppIdle
    /\ LegacyIdle
    /\ ParseIdle
    /\ \E q \in BOOLEAN, h \in {"", "h1"}, w \in Windows, p \in 1..MaxPage :
         /\ ctx = Context(q, h, w[1], w[2], p)
         /\ \/ table \in Tables(MaxRows)
            \/ table \in LongTables /\ ~q /\ h = ""
    /\ ids = NoIds
    /\ res = NoBundle
    /\ seen = <<>>
    /\ nav = "start"

\* the request is answered by LogQuery.run
Answer(last_id, direction, fail, to) ==
    /\ res' = Run(table, ctx, ids', last_id, direction, fail)
    /\ nav' = IF res'.error # "" THEN "end" ELSE to
    /\ UNCHANGED <<appVars, legacyVars, cfg, now, transport, shutting_down, queue, db, wr, coordPc,
                   arrived, discarded, accepted, failedRecs, faults, drvVars,
                   parseVars, table, ctx>>

\* the first page: no cursor, direction next
RunFirst ==
    /\ nav = "start"
    /\ ids' = Boundaries(table, ctx)
    /\ \E fail \in Failures : Answer(Nil, "next", fail, "forward")
    /\ seen' = IF res'.error = "" THEN <<res'.logs>> ELSE seen

\* the user follows the link to the next page
RunNext ==
    /\ nav = "forward"
    /\ res.has_next_page
    /\ ids' = Boundaries(table, ctx)
    /\ \E fail \in Failures : Answer(res.next_last_id, "next", fail, "forward")
    /\ seen' = IF res'.error = "" THEN Append(seen, res'.logs) ELSE seen

\* the user follows the link to the previous page
RunPrev ==
    /\ nav = "forward"
    /\ res.has_prev_page
    /\ ids' = Boundaries(table, ctx)
    /\ \E fail \in Failures : Answer(res.prev_last_id, "prev", fail, "back")
    /\ UNCHANGED seen

\* a request with any cursor and direction, answered without a failure
RunDirect ==
    /\ nav = "start"
    /\ ids' = Boundaries(table, ctx)
    /\ \E last_id \in {Nil} \cup (1..(Len(table) + 1)), direction \in Directions :
         Answer(last_id, direction, "none", "end")
    /\ UNCHANGED seen

QueryNext == RunFirst \/ RunNext \/ RunPrev \/ RunDirect

SpecQuery == InitQuery /\ [][QueryNext]_vars

-----------------------------------------------------------------------------
\* Two requests served at the same time.  index() builds a QueryContext and
\* a LogQuery of its own for each request; a LogQuery keeps its boundaries
\* and its count between the steps of run().  Here ctx, ids, seen (the
\* counts), res and nav are sequences with one entry for each request.

MaxPairRows == 2
Requests == 1..2

\* one LogQuery object that serves every request
InstanceShared(r) == 1

\* the LogQuery object of request r: index() creates one for each request
Instance(r) == r

\* QueryContext: the search with its cursor and direction
QueryContext(c, last_id, direction) ==
    [query |-> c, last_id |-> last_id, direction |-> direction]

PairContexts ==
    {QueryContext(Context(q, h, w[1], w[2], 1), l, d) :
        q \in {FALSE}, h \in {"", "h1"}, w \in {<<Nil, Nil>>, <<10, Nil>>, <<Nil, 10>>},
        l \in {Nil, 2}, d \in Directions}

InitPair ==
    /\ ServerInit
    /\ ~DEBUG
    /\ SQL_WRITE
    /\ AppIdle
    /\ LegacyIdle
    /\ ParseIdle
    /\ table \in Tables(MaxPairRows)
    /\ ctx \in [Requests -> PairContexts]
    /\ ids = [r \in Requests |-> NoIds]
    /\ seen = [r \in Requests |-> 0]
    /\ res = [r \in Requests |-> NoBundle]
    /\ nav = [r \in Requests |-> "boundary"]

PairUnchanged ==
    UNCHANGED <<appVars, legacyVars, cfg, now, transport, shutting_down, queue, db, wr, coordPc,
                arrived, discarded, accepted, failedRecs, faults, drvVars,
                parseVars, table, ctx>>

\* LogQuery.run of request r: get_time_boundary_ids
PairBoundary(r) ==
    /\ nav[r] = "boundary"
    /\ ids' = [ids EXCEPT ![Instance(r)] = Boundaries(table, ctx[r].query)]
    /\ nav' = [nav EXCEPT ![r] = "count"]
    /\ UNCHANGED <<seen, res>>
    /\ PairUnchanged

\* LogQuery.run of request r: _get_total_log_count
PairCount(r) ==
    /\ nav[r] = "count"
    /\ seen' = [seen EXCEPT ![Instance(r)] =
                   get_total_log_count(table, ctx[r].query, ids[Instance(r)])]
    /\ nav' = [nav EXCEPT ![r] = "page"]
    /\ UNCHANGED <<ids, res>>
    /\ PairUnchanged

\* LogQuery.run of request r: _fetch_log_page and _prepare_pagination
PairPage(r) ==
    /\ nav[r] = "page"
    /\ res' = [res EXCEPT ![r] =
                  prepare_pagination(
                      fetch_log_page(table, ctx[r].query, ids[Instance(r)],
                                     ctx[r].last_id, ctx[r].direction),
                      seen[Instance(r)], ctx[r].query, ctx[r].last_id,
                      ctx[r].direction)]
    /\ nav' = [nav EXCEPT ![r] = "done"]
    /\ UNCHANGED <<ids, seen>>
    /\ PairUnchanged

PairNext == \E r \in Requests : PairBoundary(r) \/ PairCount(r) \/ PairPage(r)

SpecPair == InitPair /\ [][PairNext]_vars

-----------------------------------------------------------------------------
\* Paging forward while the writer commits: between two requests of the
\* user new rows reach the table.  A new row gets the next ID and is
\* received RowGap minutes after the row before it.

MaxPagingRows == 2
MaxInserts == 1

PagingWindows == Windows \cup {<<30, Nil>>}

InitPaging ==
    /\ ServerInit
    /\ ~DEBUG
    /\ SQL_WRITE
    /\ LegacyIdle
    /\ ParseIdle
    /\ files = {} /\ users = "none" /\ session = "none"
    /\ request = 0 /\ response = "none"
    /\ table \in Tables(MaxPagingRows)
    /\ \E q \in BOOLEAN, h \in {"", "h1"}, w \in PagingWindows, p \in 1..MaxPage :
         ctx = Context(q, h, w[1], w[2], p)
    /\ snapshot = <<>>
    /\ ids = NoIds
    /\ res = NoBundle
    /\ seen = <<>>
    /\ nav = "start"

PagingUnchanged ==
    UNCHANGED <<legacyVars, cfg, now, transport, shutting_down, queue, db, wr,
                coordPc, arrived, discarded, accepted, failedRecs, faults,
                drvVars, parseVars, files, users, session, request, response, ctx>>

\* the first page: no cursor, direction next
PagingFirst ==
    /\ nav = "start"
    /\ ids' = Boundaries(table, ctx)
    /\ res' = Run(table, ctx, ids', Nil, "next", "none")
    /\ seen' = <<res'.logs>>
    /\ snapshot' = table
    /\ nav' = "forward"
    /\ UNCHANGED table
    /\ PagingUnchanged

\* the writer commits a flush of one record
PagingInsert ==
    /\ nav = "forward"
    /\ Len(table) < Len(snapshot) + MaxInserts
    /\ \E h \in Hosts, m \in BOOLEAN :
         table' = Append(table, Row(RowGap * (Len(table) + 1), h, m))
    /\ UNCHANGED <<ids, res, seen, snapshot, nav>>
    /\ PagingUnchanged

\* the user follows the link to the next page
PagingNext ==
    /\ nav = "forward"
    /\ res.has_next_page
    /\ ids' = Boundaries(table, ctx)
    /\ res' = Run(table, ctx, ids', res.next_last_id, "next", "none")
    /\ seen' = Append(seen, res'.logs)
    /\ UNCHANGED <<table, snapshot, nav>>
    /\ PagingUnchanged

PagingNextStep == PagingFirst \/ PagingInsert \/ PagingNext

SpecPaging == InitPaging /\ [][PagingNextStep]_vars

-----------------------------------------------------------------------------
\* The routes of web.py as one browser uses them: login, logout and the
\* index page, the last two behind login_required.  Meanwhile an
\* administrator adds, disables, enables and deletes users, and partition
\* files appear and go.  A file name is the number of its month; 0 is a
\* name that is no partition's.

MaxFiles == 2
MaxRequests == 3

Names == {"u1", "u2"}
FileNames == 1..MaxFiles
OtherFile == 0

\* get_available_databases: the files of the glob, sorted descending
RECURSIVE get_available_databases(_)
get_available_databases(fs) ==
    IF fs = {} THEN <<>>
    ELSE <<Max(fs)>> \o get_available_databases(fs \ {Max(fs)})

\* auth_manager.get_user: the user of that name, or None
get_user(us, name) == us[name]

\* a test that lets a disabled user pass
IsAllowedWhenKnown(user) == user # "absent"

\* login_required: not (not user or not user.is_enabled)
IsAllowed(user) == user # "absent" /\ user = "enabled"

\* auth_manager.check_password: the user exists, is enabled and the
\* password is right
check_password(us, name, right) == us[name] = "enabled" /\ right

\* a test that finds every name in the list
InListAlways(x, dbs) == TRUE

\* index: selected_db in context["available_dbs"]
InList(x, dbs) == \E i \in DOMAIN dbs : dbs[i] = x

Response(route, outcome, db_file, dbs, selected, queried) ==
    [route |-> route, outcome |-> outcome, db_file |-> db_file,
     available_dbs |-> dbs, selected_db |-> selected, queried |-> queried]

NoResponse == Response("none", "none", Nil, <<>>, Nil, FALSE)

\* index, once login_required has let the request through
index(db_file, dbs) ==
    IF dbs = <<>> THEN Response("index", "no_database", db_file, dbs, Nil, FALSE)
    ELSE LET selected_db == IF db_file = Nil THEN dbs[1] ELSE db_file IN
         IF ~InList(selected_db, dbs)
         THEN Response("index", "404", db_file, dbs, Nil, FALSE)
         ELSE Response("index", "page", db_file, dbs, selected_db, TRUE)

InitApp ==
    /\ ServerInit
    /\ ~DEBUG
    /\ SQL_WRITE
    /\ ParseIdle
    /\ LegacyIdle
    /\ table = <<>> /\ ctx = "none" /\ ids = "none" /\ res = "none"
    /\ seen = <<>> /\ nav = "idle"
    /\ files \in SUBSET FileNames
    /\ users \in [Names -> {"absent", "enabled", "disabled"}]
    /\ session = "none"
    /\ request = 0
    /\ response = NoResponse
    /\ snapshot = <<>>

AppUnchanged ==
    UNCHANGED <<legacyVars, cfg, now, transport, shutting_down, queue, db, wr,
                coordPc, arrived, discarded, accepted, failedRecs, faults,
                drvVars, parseVars, webVars, snapshot>>

\* login_required around a handler: the handler runs, or the browser is
\* sent to the login page, without its username if the user is gone
Protected(route, ran, session_after) ==
    /\ request < MaxRequests
    /\ request' = request + 1
    /\ IF session = "none"
       THEN /\ response' = Response(route, "login_needed", Nil, <<>>, Nil, FALSE)
            /\ session' = session
       ELSE IF ~IsAllowed(get_user(users, session))
       THEN /\ response' = Response(route, "user_gone", Nil, <<>>, Nil, FALSE)
            /\ session' = "none"
       ELSE /\ response' = ran
            /\ session' = session_after
    /\ UNCHANGED <<files, users>>
    /\ AppUnchanged

\* GET / with or without the parameter db_file
Index ==
    \E db_file \in FileNames \cup {OtherFile, Nil} :
        Protected("index", index(db_file, get_available_databases(files)), session)

\* GET /logout
Logout ==
    Protected("logout", Response("logout", "logged_out", Nil, <<>>, Nil, FALSE), "none")

\* POST /login with a name and a right or wrong password
Login ==
    /\ request < MaxRequests
    /\ request' = request + 1
    /\ \E name \in Names, right \in BOOLEAN :
         IF check_password(users, name, right)
         THEN /\ session' = name
              /\ response' = Response("login", "logged_in", Nil, <<>>, Nil, FALSE)
         ELSE /\ session' = session
              /\ response' = Response("login", "refused", Nil, <<>>, Nil, FALSE)
    /\ UNCHANGED <<files, users>>
    /\ AppUnchanged

\* an administrator, in a session of their own, adds, enables, disables
\* or deletes a user
ManageUser ==
    /\ \E name \in Names, to \in {"absent", "enabled", "disabled"} :
         /\ users[name] # to
         /\ users[name] = "absent" => to = "enabled"
         /\ users' = [users EXCEPT ![name] = to]
    /\ UNCHANGED <<files, session, request, response>>
    /\ AppUnchanged

\* the server opens the file of a new month, or a file is taken away
FilesChange ==
    /\ \E f \in FileNames :
         files' = IF f \in files THEN files \ {f} ELSE files \cup {f}
    /\ UNCHANGED <<users, session, request, response>>
    /\ AppUnchanged

AppNext == Index \/ Logout \/ Login \/ ManageUser \/ FilesChange

SpecApp == InitApp /\ [][AppNext]_vars

-----------------------------------------------------------------------------
\* The server of src/syslogd.py.  datagram_received starts one task of
\* handle_datagram per datagram; all tasks use the one connection self.db
\* and the one list self.fts_buffer, and a task gives way to the others
\* at each await.  A record is the number of its task.  All records are of
\* one month and no statement fails.  The connection is [pendingBase,
\* pendingFts, base, fts]: the rows inserted and not yet committed, and the
\* committed ones; for the FTS table, how often each record is in it.

MaxTasks == 3

\* handle_datagram: len(self.fts_buffer) >= 100, scaled down
FtsSyncSize == 2

TaskIds == 1..MaxTasks

NoRows == [i \in TaskIds |-> 0]

\* how often each record is in a list of buffer entries
CountIn(messages) ==
    [i \in TaskIds |-> Cardinality({k \in DOMAIN messages : messages[k] = i})]

\* self.db.commit()
ConnCommit(c) ==
    [pendingBase |-> {}, pendingFts |-> NoRows,
     base |-> c.base \cup c.pendingBase,
     fts |-> [i \in TaskIds |-> c.fts[i] + c.pendingFts[i]]]

\* self.db.close(): what is not committed is gone
ConnClose(c) == [c EXCEPT !.pendingBase = {}, !.pendingFts = NoRows]

At(pc, messages) == [pc |-> pc, messages |-> messages]

InitLegacy ==
    /\ ServerInit
    /\ ~DEBUG
    /\ SQL_WRITE
    /\ ParseIdle
    /\ AppIdle
    /\ table = <<>> /\ ctx = "none" /\ ids = "none" /\ res = "none"
    /\ seen = <<>> /\ nav = "idle"
    /\ tasks = [i \in TaskIds |-> At("none", <<>>)]
    /\ fts_buffer = <<>>
    /\ last_fts_sync = FALSE
    /\ conn = [pendingBase |-> {}, pendingFts |-> NoRows, base |-> {}, fts |-> NoRows]
    /\ sigint = At("none", <<>>)

LegacyUnchanged ==
    UNCHANGED <<appVars, cfg, now, transport, shutting_down, queue, db, wr,
                coordPc, arrived, discarded, accepted, failedRecs, faults,
                drvVars, parseVars, webVars>>

\* the loop runs: handle_sigint has not yet come to loop.stop()
Running == sigint.pc # "stopped"

\* DatagramProtocol.datagram_received: create_task(handle_datagram(...));
\* the task runs up to the first await of create_monthly_table
Receive(i) ==
    /\ Running
    /\ tasks[i].pc = "none"
    /\ \A k \in TaskIds : k < i => tasks[k].pc # "none"
    /\ tasks' = [tasks EXCEPT ![i] = At("create", <<>>)]
    /\ UNCHANGED <<fts_buffer, last_fts_sync, conn, sigint>>
    /\ LegacyUnchanged

\* create_monthly_table ends with its commit; the text is taken apart and
\* either the task returns (invalid format, or a device time more than a
\* day off) or it issues the INSERT
Create(i) ==
    /\ Running
    /\ tasks[i].pc = "create"
    /\ conn' = ConnCommit(conn)
    /\ \E valid \in BOOLEAN :
         tasks' = [tasks EXCEPT ![i] = At(IF valid THEN "insert" ELSE "done", <<>>)]
    /\ UNCHANGED <<fts_buffer, last_fts_sync, sigint>>
    /\ LegacyUnchanged

\* async with self.db.execute(sql_command, params)
Insert(i) ==
    /\ Running
    /\ tasks[i].pc = "insert"
    /\ conn' = [conn EXCEPT !.pendingBase = @ \cup {i}]
    /\ tasks' = [tasks EXCEPT ![i] = At("commit", <<>>)]
    /\ UNCHANGED <<fts_buffer, last_fts_sync, sigint>>
    /\ LegacyUnchanged

\* handle_datagram: len(self.fts_buffer) >= 100
IsFull(buffer) == Len(buffer) >= FtsSyncSize

\* await self.db.commit() returns; the record is appended to the buffer
\* and, when the buffer is full or the last sync is ten seconds old,
\* sync_fts_buffer starts: it takes the messages of the buffer and issues
\* the INSERT into the FTS table
Commit(i) ==
    /\ Running
    /\ tasks[i].pc = "commit"
    /\ conn' = ConnCommit(conn)
    /\ fts_buffer' = Append(fts_buffer, i)
    /\ \E late \in BOOLEAN :
         tasks' = [tasks EXCEPT ![i] =
                     IF IsFull(fts_buffer') \/ (last_fts_sync /\ late)
                     THEN At("sync_insert", fts_buffer')
                     ELSE At("done", <<>>)]
    /\ UNCHANGED <<last_fts_sync, sigint>>
    /\ LegacyUnchanged

\* sync_fts_buffer: await self.db.executemany(INSERT INTO FTS ...) returns
SyncInsert(i) ==
    /\ Running
    /\ tasks[i].pc = "sync_insert"
    /\ conn' = [conn EXCEPT !.pendingFts =
                   [k \in TaskIds |-> @[k] + CountIn(tasks[i].messages)[k]]]
    /\ tasks' = [tasks EXCEPT ![i] = At("sync_commit", tasks[i].messages)]
    /\ UNCHANGED <<fts_buffer, last_fts_sync, sigint>>
    /\ LegacyUnchanged

\* sync_fts_buffer: await self.db.commit() returns; the buffer is emptied
SyncCommit(i) ==
    /\ Running
    /\ tasks[i].pc = "sync_commit"
    /\ conn' = ConnCommit(conn)
    /\ last_fts_sync' = TRUE
    /\ fts_buffer' = <<>>
    /\ tasks' = [tasks EXCEPT ![i] = At("done", <<>>)]
    /\ UNCHANGED sigint
    /\ LegacyUnchanged

\* handle_sigint starts: with entries in the buffer it calls
\* sync_fts_buffer, otherwise it goes on to shutdown
SigintStart ==
    /\ sigint.pc = "none"
    /\ sigint' = IF fts_buffer # <<>> THEN At("sync_insert", fts_buffer)
                 ELSE At("shutdown", <<>>)
    /\ UNCHANGED <<tasks, fts_buffer, last_fts_sync, conn>>
    /\ LegacyUnchanged

SigintSyncInsert ==
    /\ sigint.pc = "sync_insert"
    /\ conn' = [conn EXCEPT !.pendingFts =
                   [k \in TaskIds |-> @[k] + CountIn(sigint.messages)[k]]]
    /\ sigint' = At("sync_commit", sigint.messages)
    /\ UNCHANGED <<tasks, fts_buffer, last_fts_sync>>
    /\ LegacyUnchanged

SigintSyncCommit ==
    /\ sigint.pc = "sync_commit"
    /\ conn' = ConnCommit(conn)
    /\ last_fts_sync' = TRUE
    /\ fts_buffer' = <<>>
    /\ sigint' = At("shutdown", <<>>)
    /\ UNCHANGED tasks
    /\ LegacyUnchanged

\* shutdown: the endpoint and the connection are closed, the loop stops
Shutdown ==
    /\ sigint.pc = "shutdown"
    /\ conn' = ConnClose(conn)
    /\ sigint' = At("stopped", <<>>)
    /\ UNCHANGED <<tasks, fts_buffer, last_fts_sync>>
    /\ LegacyUnchanged

LegacyNext ==
    \/ \E i \in TaskIds :
          Receive(i) \/ Create(i) \/ Insert(i) \/ Commit(i) \/ SyncInsert(i) \/ SyncCommit(i)
    \/ SigintStart
    \/ SigintSyncInsert
    \/ SigintSyncCommit
    \/ Shutdown

SpecLegacy == InitLegacy /\ [][LegacyNext]_vars

\* ------------------------------------------------------------------------
\* Properties
\* ------------------------------------------------------------------------

\* the committed rows of every table
AllRows(snap) == UNION {{snap.rows[m][i] : i \in DOMAIN snap.rows[m]} : m \in Months}

\* a flush triggered by t ends in this step
FlushEnds(t) == trigger = t /\ trigger' # t

Increasing(q) == \A i, j \in DOMAIN q : i < j => q[i].id < q[j].id

\* C1: after a flush, every committed row of the table of month ym is a
\* record whose ReceivedAt month is ym; no record is stored in the table of
\* another month.
C1_Partitioning ==
    \A m \in Months : \A i \in DOMAIN db.c.rows[m] : db.c.rows[m][i].ym = m

\* C2: the writer leaves its loop only with the shutdown flag set and the
\* queue empty; when shutdown() has closed the store, the queue and the
\* in-flight batch are empty and every datagram that was enqueued and
\* decodes to a record has been handed to write_batch_to_db.
C2_ShutdownDrains ==
    /\ (writerPc = "done" \/ trigger = "final") => (shutting_down /\ queue = <<>>)
    /\ (SQL_WRITE /\ coordPc = "closed") =>
           /\ queue = <<>>
           /\ batch = <<>>
           /\ accepted \subseteq handed

C2_Witness ==
    /\ SQL_WRITE
    /\ coordPc = "closed"
    /\ Cardinality(accepted) >= 2
    /\ accepted \subseteq handed

\* C3: while shutdown has not been signalled, no exception ends the writer
\* task.
C3_WriterSurvives == ~shutting_down => writerPc # "crashed"

\* C4: after the signal the system reaches CLOSED: whenever shutdown has
\* been signalled and neither the writer nor the coordinator can take a
\* step any more, the writer task has ended and the store is closed.
C4_ShutdownReachesClosed ==
    (shutting_down /\ ~ENABLED (WriterStep \/ CoordStep)) =>
        (coordPc = "closed" /\ writerPc \in {"none", "done"} /\ ~db.open)

\* C5: once the shutdown flag is set it stays set, and datagram_received
\* leaves the queue as it is: the queue never grows after shutdown began.
C5_NoEnqueueAfterShutdown ==
    [][shutting_down =>
         /\ shutting_down'
         /\ Len(queue') <= Len(queue)
         /\ (arrived' # arrived => queue' = queue)]_vars

C5_Witness == shutting_down /\ discarded > 0

\* C6: a size-triggered write is issued only with BATCH_SIZE records or
\* more in the batch, and when it is over the in-flight batch is empty.
C6_SizeFlushEmptiesBatch ==
    [][/\ (trigger' = "size" /\ trigger # "size") => Len(batch') >= BATCH_SIZE
       /\ FlushEnds("size") => batch' = <<>>]_vars

\* C7: a timeout with a non-empty batch flushes and empties the batch and
\* the writer goes on; a timeout with an empty batch hands nothing to a
\* write.
C7_TimeoutFlushEmptiesBatch ==
    [][/\ FlushEnds("timeout") => (batch' = <<>> /\ writerPc' # "crashed")
       /\ (writerPc = "wait" /\ queue = <<>> /\ batch = <<>> /\ writerPc' # "wait")
             => handed' = handed]_vars

\* C8: records reach the store in receipt order: the queue, the in-flight
\* batch and the rows of every table (by ID) are in the order of receipt,
\* and what is in the batch was received before what is in the queue.
C8_ReceiptOrder ==
    /\ Increasing(queue)
    /\ Increasing(batch)
    /\ \A i \in DOMAIN batch, j \in DOMAIN queue : batch[i].id < queue[j].id
    /\ \A m \in Months : Increasing(db.w.rows[m]) /\ Increasing(db.c.rows[m])

\* a table holds the rows of two flushes
C8_Witness ==
    \E m \in Months : Len(db.c.rows[m]) > BATCH_SIZE /\ Increasing(db.c.rows[m])

\* C9: the records of a flush whose insert or commit failed are never
\* committed to the store.
C9_FailedFlushNotStored ==
    \A r \in AllRows(db.c) : r.id \notin failedRecs

\* C10: after a successful write_batch the FTS index of the table the flush
\* wrote to holds the committed rows of that table.
C10_FtsMatchesBase ==
    (drvLast.ok /\ drvLast.batch # <<>>) =>
        LET ym == year_month(drvLast.batch)
        IN  drv.c.fts[ym] = drv.c.rows[ym]

\* C11: the shutdown flag is never reset and the coordinator only moves
\* forward (running, draining, closed); the store is closed only when the
\* writer task has ended with nothing left in flight, and nothing is done
\* on a closed store: it stays as it is and no write is in progress.
C11_ShutdownOrder ==
    [][/\ shutting_down => shutting_down'
       /\ coordPc' # coordPc =>
             <<coordPc, coordPc'>> \in {<<"running", "sleep">>, <<"running", "closed">>,
                                       <<"sleep", "await">>, <<"await", "closed">>,
                                       <<"await", "failed">>}
       /\ (db.open /\ ~db'.open) =>
             /\ shutting_down'
             /\ writerPc \in {"none", "done"}
             /\ batch = <<>>
             /\ trigger = "none"
       /\ ~db.open => (db' = db /\ writerPc' \notin FlushPcs)]_vars

\* the store was closed after the writer's final flush stored something
C11_Witness ==
    /\ SQL_WRITE
    /\ ~db.open
    /\ writerPc = "done"
    /\ AllRows(db.c) # {}

\* C12: while shutdown has not begun, datagram_received can always run,
\* whatever the queue holds, and it appends exactly one item (the datagram
\* as received, decodable or not, with its receipt time) at the end of the
\* queue and changes nothing else: not the batch, the store or the writer.
C12_ReceiveFrame ==
    /\ []((transport # "none" /\ arrived < MaxDatagrams) => ENABLED DatagramReceived)
    /\ [][(arrived' # arrived /\ ~shutting_down) =>
             /\ Len(queue') = Len(queue) + 1
             /\ queue' = Append(queue, queue'[Len(queue')])
             /\ queue'[Len(queue')].id = arrived'
             /\ queue'[Len(queue')].ym = now
             /\ UNCHANGED <<appVars, legacyVars, cfg, parseVars, webVars, now, transport, shutting_down, db, wr, coordPc,
                            failedRecs, faults>>]_vars

\* a datagram that does not decode was put behind another one while a
\* flush was in progress
C12_Witness ==
    /\ ~shutting_down
    /\ Len(queue) >= 2
    /\ ~queue[Len(queue)].utf8
    /\ writerPc \in FlushPcs

\* C13: process_datagram returns a record for every payload that is valid
\* UTF-8 and None only for one that is not; for a text that matches neither
\* grammar the record has the peer as FromHost, the tag UNKNOWN, the process
\* id 0, the whole text as Message, and its facility and level are decoded
\* from the text between a leading '<' and the first '>', or from 14 when
\* the text has no '<' or no '>'.
C13_FailOpenRecord ==
    result.ret \in {"None", "record"} =>
        /\ (result.ret = "record") <=> (data.kind # "binary")
        /\ data.kind = "text" =>
              LET t == data.text
                  fp == <<result.Facility, result.Priority>>
              IN  /\ result.FromHost = address
                  /\ result.SysLogTag = "UNKNOWN"
                  /\ result.ProcessID = "0"
                  /\ result.Message = t
                  /\ (Find(t, "<") = 0 \/ Find(t, ">") = 0) =>
                         fp = decode_int(StrCode(<<"1", "4">>))
                  /\ (Find(t, "<") = 1 /\ Find(t, ">") # 0) =>
                         fp = decode_int(StrCode(SubSeq(t, 2, Find(t, ">") - 1)))

\* the row's ReceivedAt is inside the time window, its ends included
InWindow(t, t_min, t_max) == (t_min # Nil => t_min <= t) /\ (t_max # Nil => t <= t_max)

\* C14: the boundaries get_time_boundary_ids returns select exactly the rows
\* of the window: a row passes the ID conditions of a search by time alone
\* (id_lo <= ID <= id_hi) if and only if its ReceivedAt is in [t_min, t_max];
\* a window without rows selects no row.
C14_BoundaryCorrect ==
    ids.called =>
        \A i \in DOMAIN table :
            Where(table, i, ctx, ids.start_id, ids.end_id)
                <=> InWindow(table[i].t, ctx.min_time, ctx.max_time)

\* the IDs of the rows the search selects: those that pass the WHERE
\* conditions of the run
FilterSet == {i \in DOMAIN table : Where(table, i, ctx, ids.start_id, ids.end_id)}

RECURSIVE Flat(_)
Flat(pages) == IF pages = <<>> THEN <<>> ELSE Head(pages) \o Flat(Tail(pages))

Decreasing(q) == \A i, j \in DOMAIN q : i < j => q[i] > q[j]

Elems(q) == {q[i] : i \in DOMAIN q}

\* the run took the standard path of counting
StandardPath == ~(use_approximate_count(ctx) /\ ids.end_id # Nil)

\* C15: the pages got by paging forward from the first page hold records
\* of the filter set only, each at most once, newest first; there are never
\* more pages than records (plus the first one), and when has_next_page is
\* false the pages hold every record of the filter set.
C15_ForwardPagingComplete ==
    nav = "forward" =>
        /\ Decreasing(Flat(seen))
        /\ Elems(Flat(seen)) \subseteq FilterSet
        /\ Len(seen) <= Cardinality(FilterSet) + 1
        /\ ~res.has_next_page => Elems(Flat(seen)) = FilterSet

\* the first page of the search is fetched from a slice the fast path cut
FastPathCut ==
    /\ ids.end_id # Nil
    /\ effective_start_id(ctx, ids, Nil) > (IF ids.start_id # Nil THEN ids.start_id ELSE 1)

\* forward paging came to its end after three pages or more, the first of
\* them fetched on the fast path
C15_Witness ==
    /\ nav = "forward"
    /\ ~res.has_next_page
    /\ Len(seen) >= 3
    /\ Elems(Flat(seen)) = FilterSet
    /\ FastPathCut

\* C16: after paging forward to a page and then asking for the previous
\* page with that page's prev_last_id, the answer is the page before it, in
\* the same order.
C16_BackReturnsPage ==
    nav = "back" => res.logs = seen[Len(seen) - 1]

\* C17: on the standard path total_logs is the number of records of the
\* filter set, which is the number of records forward paging returns when
\* it has come to its end.
C17_CountConsistent ==
    (nav # "start" /\ res.error = "" /\ StandardPath) =>
        /\ res.total_logs = Cardinality(FilterSet)
        /\ (nav = "forward" /\ ~res.has_next_page) =>
              res.total_logs = Len(Flat(seen))

\* forward paging with a FromHost filter ended after two pages or more on
\* the standard path
C17_Witness ==
    /\ nav = "forward"
    /\ ~res.has_next_page
    /\ StandardPath
    /\ ctx.from_host # ""
    /\ Len(seen) >= 2
    /\ res.total_logs = Len(Flat(seen))
    /\ res.total_logs < Len(table)

\* C18: every request is answered with a bundle; the bundle of a run in
\* which a step failed has the error, no logs and total_logs 0, also when
\* the count had succeeded before; every other bundle has no error, the
\* count and the page of the request.
C18_ErrorBundle ==
    nav # "start" =>
        IF res.error # ""
        THEN res.logs = <<>> /\ res.total_logs = 0
        ELSE /\ res.total_logs = get_total_log_count(table, ctx, ids)
             /\ res.fetched = fetch_log_page(table, ctx, ids, res.last_id, res.direction)
             /\ Elems(res.logs) \subseteq Elems(res.fetched)

\* the page query failed in a run whose count was not zero
C18_Witness ==
    /\ nav = "end"
    /\ res.error = "page"
    /\ get_total_log_count(table, ctx, ids) > 0
    /\ res.total_logs = 0

\* C19: has_more is true iff more than page_size rows were fetched;
\* has_next_page and has_prev_page are has_more and "a cursor was given",
\* according to the direction; next_last_id is the ID of the last returned
\* row, prev_last_id that of the first, both nil for an empty page.
C19_PageInfo ==
    (nav # "start" /\ res.error = "") =>
        LET has_more == Len(res.fetched) > ctx.page_size
            given == res.last_id # Nil
        IN  /\ res.direction = "next" =>
                  (res.has_next_page = has_more /\ res.has_prev_page = given)
            /\ res.direction = "prev" =>
                  (res.has_prev_page = has_more /\ res.has_next_page = given)
            /\ res.next_last_id = IF res.logs = <<>> THEN Nil ELSE res.logs[Len(res.logs)]
            /\ res.prev_last_id = IF res.logs = <<>> THEN Nil ELSE res.logs[1]

\* a request for a previous page fetched more than page_size rows
C19_Witness ==
    /\ nav # "start"
    /\ res.error = ""
    /\ res.direction = "prev"
    /\ res.last_id # Nil
    /\ Len(res.fetched) > ctx.page_size
    /\ res.has_prev_page
    /\ res.has_next_page

\* C20: a returned page has at most page_size records, newest first, for
\* both directions, and the extra row of LIMIT page_size + 1 is not in it.
C20_PageShape ==
    (nav # "start" /\ res.error = "") =>
        /\ Len(res.logs) <= ctx.page_size
        /\ Decreasing(res.logs)
        /\ Len(res.fetched) > ctx.page_size =>
              res.fetched[ctx.page_size + 1] \notin Elems(res.logs)

\* C21: total_logs is id_hi - (id_lo, or 1 when absent) + 1, got without a
\* query, exactly when the search has no term and no host filter, has a
\* time bound and id_hi is present; in every other case it is the result of
\* the count query, so that only then a failing count query fails the run.
C21_ApproximateCount ==
    (nav # "start" /\ res.error = "") =>
        LET arithmetic == /\ ~ctx.search
                          /\ ctx.from_host = ""
                          /\ (ctx.min_time # Nil \/ ctx.max_time # Nil)
                          /\ ids.end_id # Nil
            lo == IF ids.start_id # Nil THEN ids.start_id ELSE 1
        IN  /\ res.total_logs = IF arithmetic THEN ids.end_id - lo + 1
                                ELSE CountQuery(table, ctx, ids.start_id, ids.end_id)
            /\ (Run(table, ctx, ids, res.last_id, res.direction, "count").error # "")
                   <=> ~arithmetic

\* a count got by arithmetic with id_lo absent
C21_Witness ==
    /\ nav # "start"
    /\ res.error = ""
    /\ use_approximate_count(ctx)
    /\ ids.start_id = Nil
    /\ ids.end_id # Nil
    /\ res.total_logs = ids.end_id
    /\ res.total_logs > 0

\* C22: decode_int of a code in 0..191, given as an integer or as its
\* decimal string, is (code div 8, code mod 8); of any other integer or
\* string it is (0, 0); the call always returns.
C22_DecodeInt ==
    /\ result.ret \in {"pending", "returned"}
    /\ result.ret = "returned" =>
          \/ \E i \in 0..191 :
                /\ data \in {IntCode(i), StrCode(str(i))}
                /\ result.value = <<i \div 8, i % 8>>
          \/ /\ \A i \in 0..191 : data \notin {IntCode(i), StrCode(str(i))}
             /\ result.value = <<0, 0>>

\* the string "191" decoded as local7.debug
C22_Witness ==
    /\ result.ret = "returned"
    /\ data = StrCode(<<"1", "9", "1">>)
    /\ result.value = <<23, 7>>

\* C23: normalize_to_rfc5424 returns a canonical RFC 5424 text (version 1)
\* as it is, and normalizing its result again, at any later time, changes
\* nothing.
C23_NormalizeIdempotent ==
    data.kind # "binary" =>
        /\ (data.kind = "rfc5424" /\ data.ver = <<"1">>) =>
               \A t \in ConvertTimes : normalize_to_rfc5424(data, t) = data
        /\ \A t1, t2 \in ConvertTimes :
               normalize_to_rfc5424(normalize_to_rfc5424(data, t1), t2)
                   = normalize_to_rfc5424(data, t1)

\* an RFC 3164 text whose time strptime does not read was rewritten
C23_Witness ==
    /\ result.ret = "record"
    /\ data.kind = "rfc3164"
    /\ data.ts.date # "Oct 11"
    /\ \A t \in ConvertTimes : normalize_to_rfc5424(data, t) # data
    /\ result.SysLogTag = "a"

\* the payload is a text whose normalized form RFC5424_PATTERN matches
MatchesGrammar ==
    \/ data.kind = "rfc5424"
    \/ data.kind = "rfc3164" /\ data.app # ""

\* C24: the record of a text that matches the RFC 5424 grammar has the
\* facility and level of its PRI, the host of the text or the peer address
\* for "-", the app-name or UNKNOWN for "-", the procid or 0 for "-",
\* InfoUnitID 1 and the receipt stamp as ReceivedAt.
C24_Rfc5424Record ==
    (result.ret = "record" /\ MatchesGrammar) =>
        /\ <<result.Facility, result.Priority>>
               = IF data.pri = <<"1", "4">> THEN <<1, 6>> ELSE <<0, 0>>
        /\ result.FromHost = IF data.host = "-" THEN address ELSE data.host
        /\ result.SysLogTag = IF data.app = "-" THEN "UNKNOWN" ELSE data.app
        /\ result.ProcessID = IF data.pid = "-" THEN "0" ELSE data.pid
        /\ result.InfoUnitID = 1
        /\ result.ReceivedAt = received_at

\* a record of an RFC 5424 text with "-" as host, app-name and procid and
\* a timestamp of its own
C24_Witness ==
    /\ result.ret = "record"
    /\ data.kind = "rfc5424"
    /\ data.host = "-" /\ data.app = "-" /\ data.pid = "-"
    /\ result.FromHost = address
    /\ result.SysLogTag = "UNKNOWN"
    /\ result.ProcessID = "0"
    /\ result.Facility = 1
    /\ result.DeviceReportedTime # received_at
    /\ result.ReceivedAt = received_at

\* whether a timestamp is ISO-8601 (letters in either case), and its value
IsIso8601(ts) ==
    /\ ts.date = "2003-10-11"
    /\ ts.sep \in {"T", "t"}
    /\ ts.time = "22:14:15"
    /\ ts.zone \in {"", "Z", "z", "+07:00"}
IsoValue(ts) ==
    DateTime(ts.date, ts.time, IF ts.zone \in {"Z", "z"} THEN "+00:00" ELSE ts.zone)

IsPrefix(p, q) == Len(p) <= Len(q) /\ SubSeq(q, 1, Len(p)) = p

\* C26: when sync_fts_for_month runs, the records of the flush are
\* committed; whether the rebuild or its commit fails or not, the writer
\* task goes on (it does not end with an exception), no committed record is
\* ever lost, and a rebuild that is committed indexes every committed row
\* of the partition, those of earlier flushes whose rebuild failed included.
C26_FtsFailureHarmless ==
    [][ /\ \A m \in Months : IsPrefix(db.c.rows[m], db'.c.rows[m])
        /\ writerPc \in {"fts", "ftscommit"} =>
              LET ym == year_month(batch) IN
              /\ Ids(batch) \subseteq Ids(db.c.rows[ym])
              /\ writerPc' # "crashed"
              /\ (writerPc = "ftscommit" /\ writerPc' # "ftscommit"
                      /\ db'.c # db.c) =>
                     db'.c.fts[ym] = db'.c.rows[ym]
      ]_vars

\* a rebuild has failed: the writer waits for the next datagram, the rows
\* of the flush are committed and the index of the partition lacks them
C26_Witness ==
    /\ writerPc = "wait"
    /\ ~db.inTxn
    /\ \E m \in db.c.ftsT :
          /\ db.c.rows[m] # <<>>
          /\ db.c.fts[m] # db.c.rows[m]

\* C27: a call of create_monthly_table that finds the table of the month
\* changes nothing in the store, and it finds the table only when the
\* creation of the partition is committed; a table, index or FTS table
\* once created is never created again (none disappears from what the
\* connection sees).
C27_CreateIdempotent ==
    [][ /\ db.w.tables \subseteq db'.w.tables
        /\ db.w.idx \subseteq db'.w.idx
        /\ db.w.ftsT \subseteq db'.w.ftsT
        /\ (writerPc = "create" /\ year_month(batch) \in db.w.tables) =>
              /\ year_month(batch) \in db.c.tables
              /\ writerPc' = "insert" => db' = db
      ]_vars

C29_PageLowerBound ==
    (nav # "start" /\ res.error = "") =>
        LET tightened == /\ ~ctx.search
                         /\ ctx.from_host = ""
                         /\ (ctx.min_time # Nil \/ ctx.max_time # Nil)
                         /\ res.last_id = Nil
                         /\ ids.end_id # Nil
            id_lo == IF ids.start_id # Nil THEN ids.start_id ELSE 1
            bound == ids.end_id - ctx.page_size - 50
            lower == IF ~tightened THEN ids.start_id
                     ELSE IF id_lo >= bound THEN id_lo ELSE bound
        IN  res.fetched
                = PageQuery(table, ctx, lower, ids.end_id, res.last_id, res.direction)

\* a first page whose rows are not those the lower bound id_lo gives
C29_Witness ==
    /\ nav # "start"
    /\ res.error = ""
    /\ use_approximate_count(ctx)
    /\ res.last_id = Nil
    /\ ids.end_id # Nil
    /\ ids.start_id # Nil
    /\ ids.end_id - ctx.page_size - 50 > ids.start_id
    /\ res.fetched
           # PageQuery(table, ctx, ids.start_id, ids.end_id, res.last_id, res.direction)

\* the probes follow each other from the instant first, and probe number k
\* is 5, 15, 30 minutes long and 60 from the fourth on
OnSchedule(probes, first) ==
    \A k \in DOMAIN probes :
        /\ probes[k].from = IF k = 1 THEN first ELSE probes[k - 1].to
        /\ probes[k].to - probes[k].from
               = CASE k = 1 -> 5 [] k = 2 -> 15 [] k = 3 -> 30 [] OTHER -> 60

C32_YearReconstruction ==
    (result.ret = "returned" /\ data # LeapDay) =>
        /\ result.value.pos = data
        /\ result.value.year = IF data > result.at.pos THEN result.at.year - 1
                                ELSE result.at.year
        /\ Instant(result.value) <= Instant(result.at)
        /\ Instant(result.at) - Instant(result.value) < MaxSlot

\* a text of late in the year rewritten early in the next
C32_Witness ==
    /\ result.ret = "returned"
    /\ data = MaxSlot
    /\ result.at.pos = 1
    /\ result.value.year = result.at.year - 1

\* C33: the index page searches a file of the list get_available_databases
\* gave only; a db_file outside the list is answered with 404 and no
\* search; without db_file the first file of the list, the newest, is
\* searched.
C33_IndexSelectsListedFile ==
    response.route = "index" =>
        /\ response.queried =>
              /\ InList(response.selected_db, response.available_dbs)
              /\ response.outcome = "page"
        /\ (response.outcome \in {"page", "404"} /\ response.db_file # Nil
               /\ ~\E i \in DOMAIN response.available_dbs :
                      response.available_dbs[i] = response.db_file) =>
              (response.outcome = "404" /\ ~response.queried)
        /\ (response.outcome \in {"page", "404"} /\ response.db_file = Nil) =>
              /\ response.queried
              /\ response.selected_db = response.available_dbs[1]
              /\ \A i \in DOMAIN response.available_dbs :
                    response.available_dbs[i] <= response.selected_db

\* a request for a file that is not there is refused while two files are
C33_Witness ==
    /\ response.route = "index"
    /\ response.outcome = "404"
    /\ response.db_file = OtherFile
    /\ Len(response.available_dbs) = 2

\* C34: a handler behind login_required runs only for a session whose
\* username is that of an enabled user; without a username the browser
\* is sent to the login page; with the username of a user who is disabled
\* or gone it is sent there too and the username leaves the session.
C34_LoginRequired ==
    [][(request' # request /\ response'.route \in {"index", "logout"}) =>
         /\ response'.outcome \notin {"login_needed", "user_gone"} =>
               (session \in Names /\ users[session] = "enabled")
         /\ session = "none" =>
               (response'.outcome = "login_needed" /\ session' = "none")
         /\ (session \in Names /\ users[session] # "enabled") =>
               (response'.outcome = "user_gone" /\ session' = "none")]_vars

\* a user who logged in and was disabled asks for a page
C34_Witness ==
    /\ response.route = "index"
    /\ response.outcome = "user_gone"
    /\ session = "none"
    /\ \E n \in Names : users[n] = "disabled"

\* C35: the in-flight batch never holds more than BATCH_SIZE records, and
\* while the writer waits for the next item of the queue it holds fewer.
C35_BatchBounded ==
    /\ Len(batch) <= BATCH_SIZE
    /\ writerPc = "wait" => Len(batch) < BATCH_SIZE

\* C36: a month whose base table exists, for other connections or for the
\* writer's own, has its ReceivedAt index and its FTS table there too.
C36_PartitionComplete ==
    /\ db.c.tables \subseteq (db.c.idx \cap db.c.ftsT)
    /\ db.w.tables \subseteq (db.w.idx \cap db.w.ftsT)

\* the rows of the table at the first request that the search selects
SnapshotSet ==
    LET b == Boundaries(snapshot, ctx)
    IN  {i \in DOMAIN snapshot : Where(snapshot, i, ctx, b.start_id, b.end_id)}

\* C37: rows committed between two requests do not disturb paging forward:
\* a next page holds the records it would hold had nothing been inserted
\* since the first request, no record is on two pages, and when there is
\* no next page every record the search selected at the first request has
\* been on a page.
C37_InsertsDoNotDisturb ==
    (nav = "forward" /\ Len(seen) >= 2) =>
        /\ res.logs = Run(snapshot, ctx, Boundaries(snapshot, ctx),
                          res.last_id, "next", "none").logs
        /\ Decreasing(Flat(seen))
        /\ ~res.has_next_page => SnapshotSet \subseteq Elems(Flat(seen))

\* the same for a search that selects a record at the first request
InsertsHarmlessInNonEmptyWindow ==
    (nav = "forward" /\ seen[1] # <<>>
       /\ (ctx.min_time # Nil \/ ctx.max_time # Nil) =>
             \E i \in DOMAIN snapshot : InWindow(snapshot[i].t, ctx.min_time, ctx.max_time)) =>
        C37_InsertsDoNotDisturb

\* the answer to the request of the last run, had its page query been
\* made with the lower bound id_lo
WithOriginalBound ==
    prepare_pagination(PageQuery(table, ctx, ids.start_id, ids.end_id,
                                 res.last_id, res.direction),
                       res.total_logs, ctx, res.last_id, res.direction)

\* the last run answered a request without last_id for a search by time
\* alone whose boundaries are in order
FirstPageByTime ==
    /\ nav # "start"
    /\ res.error = ""
    /\ use_approximate_count(ctx)
    /\ res.last_id = Nil
    /\ ids.end_id # Nil
    /\ ids.start_id # Nil => ids.start_id <= ids.end_id

\* C38: on the first page of a search by time alone the records and
\* has_next_page are those the page query gives with the lower bound id_lo.
C38_FastPathSameFirstPage ==
    FirstPageByTime =>
        /\ res.logs = WithOriginalBound.logs
        /\ res.has_next_page = WithOriginalBound.has_next_page

\* the same for the first page as the links of the UI ask for it
FastPathSameForNext ==
    (FirstPageByTime /\ res.direction = "next") =>
        /\ res.logs = WithOriginalBound.logs
        /\ res.has_next_page = WithOriginalBound.has_next_page

\* the rows of the table received in the time window of the search
WindowRows == {i \in DOMAIN table : InWindow(table[i].t, ctx.min_time, ctx.max_time)}

\* the last run got total_logs by arithmetic
ApproximatePath ==
    /\ nav # "start"
    /\ res.error = ""
    /\ use_approximate_count(ctx)
    /\ ids.end_id # Nil

\* C39: a total_logs got by arithmetic is the number of records received
\* in the time window of the search.
C39_ApproximateCountExact ==
    ApproximatePath => res.total_logs = Cardinality(WindowRows)

\* it is what the count query of the same run returns
ApproximateIsCountQuery ==
    ApproximatePath =>
        res.total_logs = CountQuery(table, ctx, ids.start_id, ids.end_id)

\* it is the number of records of the window when the window holds one
ApproximateExactInNonEmptyWindow ==
    (ApproximatePath /\ WindowRows # {}) => res.total_logs = Cardinality(WindowRows)

\* C40: in the server of syslogd.py no record is in the FTS table more
\* than once, and when SIGINT has been handled every record of the base
\* table is in it once.
C40_FtsExactlyOnce ==
    /\ \A i \in TaskIds : conn.fts[i] <= 1
    /\ sigint.pc = "stopped" => \A i \in conn.base : conn.fts[i] = 1

\* no record is in the FTS table more than once
FtsAtMostOnce == \A i \in TaskIds : conn.fts[i] <= 1

\* a record of the base table is in the FTS table, in the buffer, in the
\* messages of a running sync, or its task has yet to append it
FtsNoneLost ==
    \A i \in conn.base :
        \/ conn.fts[i] >= 1
        \/ \E k \in DOMAIN fts_buffer : fts_buffer[k] = i
        \/ \E t \in TaskIds : \E k \in DOMAIN tasks[t].messages : tasks[t].messages[k] = i
        \/ \E k \in DOMAIN sigint.messages : sigint.messages[k] = i
        \/ tasks[i].pc = "commit"

=============================================================================
